---- MODULE Spec2Model ----
(***************************************************************************)
(* Model of kenodevv/proxy-tester: the parallel test orchestrator of       *)
(* tester.py (test_proxies_parallel, test_proxies_multi_url_parallel), the *)
(* result records and their derived predicates, and the single-proxy       *)
(* prober (test_http, test_http_for_url).                                  *)
(*                                                                         *)
(* Python lists are 0-based; the model's sequences are 1-based, so proxy   *)
(* i of the model is proxies[i-1] of the code.                             *)
(***************************************************************************)
EXTENDS Integers, Sequences, FiniteSets, TLC

\* ------------------------------------------------------------------------
\* Bounds of the model
\* ------------------------------------------------------------------------
MaxProxies == 2
MaxWorkers == 2
MaxUrls == 2
MaxPieces == 3
MaxChars == 4
MaxTotal == 3

\* ------------------------------------------------------------------------
\* Values
\* ------------------------------------------------------------------------
\* Python's None.  An optional record is None or the record; an optional
\* number or string v is None or Some(v), so that present and absent values
\* compare.
None == <<>>
Some(v) == <<v>>

Urls == {"u1", "u2"}

\* The proxies a run is given: prefixes of a list holding distinct and
\* equal Proxy values.
ProxyPool == <<"pA", "pB", "pA", "pC", "pB">>

UrlLists == UNION {[1..n -> Urls] : n \in 1..MaxUrls}

Range(s) == {s[k] : k \in DOMAIN s}

VARIABLES
    \* --- orchestrator (test_proxies_parallel / test_proxies_multi_url_parallel)
    mode,            \* "single" or "multi": which of the two functions runs
    proxies,         \* the proxies argument
    urls,            \* the url argument (a one-element list) or the urls argument
    max_workers,     \* the max_workers argument
    has_callback,    \* whether progress_callback is given
    pc,              \* position of the calling thread
    ref_next,        \* index into urls of the next reference fetch
    reference_data,  \* url -> (hash, length) of the reference fetch, or unset
    ref_fetches,     \* url -> number of reference fetches made (history)
    n_submitted,     \* number of executor.submit calls made
    task,            \* index -> state of the submitted work item
    queue,           \* the executor's FIFO work queue (indices)
    future,          \* index -> outcome of the future (None while not done)
    finish_order,    \* indices in the order their futures finished (history)
    prefinished,     \* futures already finished when as_completed started
    waiter,          \* futures finished after that, in completion order
    collected,       \* futures the as_completed loop has yielded
    results,         \* the results list
    completed,       \* the completed counter
    calls,           \* invocations of progress_callback, in order (history)
    cb_raised,       \* whether an invocation of progress_callback raised
    submit_count,    \* index -> number of tasks submitted for it (history)
    start_count,     \* index -> number of times its task was started (history)
    \* --- one result record and its is_working (TestResult, URLTestResult)
    rec,             \* the fields of the record
    out_url,         \* what URLTestResult.is_working returned, None before the call
    out_test,        \* what TestResult.is_working returned, None before the call
    \* --- one MultiURLTestResult and its derived values
    url_results,     \* the url_results dict: url -> URLTestResult
    m_out,           \* the last method called and what it returned
    \* --- one call of the single-proxy prober (test_http, test_http_for_url)
    p_fn,            \* which of the two functions runs
    p_pc,            \* position inside the function
    p_response,      \* the response requests.get returned, with the time it took
    p_result,        \* the result record being filled in
    p_exc,           \* the exception that was caught, None if none was
    \* --- one call of detect_block (detector.py)
    d_text,          \* the response_text argument, a sequence of text pieces
    d_status,        \* the status_code argument
    d_length,        \* the content_length argument
    d_out,           \* what detect_block returned, None before the call
    \* --- one call of parse_selection (proxy_parser.py)
    sel_selection,   \* the selection argument, a sequence of characters
    sel_total,       \* the total argument
    sel_out,         \* what parse_selection returned, None before the call
    \* --- one proxy line parsed and used (proxy_parser.py)
    px_intended,     \* the parts the line was written from
    px_line,         \* the line argument of parse_proxy, a sequence of characters
    px_proxy,        \* what parse_proxy returned, in Some(); None before the call
    px_request,      \* what get_request_proxies returned, None before the call
    \* --- the test sequence of one proxy (test_proxy_full, test_proxy_multi_url)
    t_mode,          \* "single": test_proxy_full runs, "multi": test_proxy_multi_url
    t_urls,          \* the url argument (a one-element list) or the urls argument
    t_include_ping,  \* the include_ping argument
    t_include_ip_check, \* the include_ip_check argument
    t_pc,            \* position of the worker inside the function
    t_k,             \* index into urls of the next HTTP probe
    t_inflight,      \* the network operations started and not yet finished
    t_started,       \* the network operations started, in order (history)
    t_result,        \* the result record being filled in
    t_replies,       \* what the IP-echo endpoints contacted so far answered (history)
    \* --- one run of main (main.py)
    mn_pc,           \* position of main
    mn_proxies,      \* Some(number of proxies parse_proxy_file returned), None before
    mn_selected,     \* selected_indices
    mn_urls,         \* the target URLs
    mn_invalid,      \* whether a selection was refused (history)
    mn_started,      \* whether the orchestrator has been called (history)
    mn_exit,         \* Some(exit status) once the process has ended
    mn_cause,        \* why the run ended (history)
    \* --- the proxy whose task is slow (orchestrator under fair scheduling)
    slow             \* index of the proxy whose task may run forever, 0 if none is singled out

orchVars == <<mode, proxies, urls, max_workers, has_callback, pc, ref_next,
              reference_data, ref_fetches, n_submitted, task, queue, future,
              finish_order, prefinished, waiter, collected, results,
              completed, calls, cb_raised, submit_count, start_count>>

recVars == <<rec, out_url, out_test>>
multiVars == <<url_results, m_out>>
probeVars == <<p_fn, p_pc, p_response, p_result, p_exc>>
detVars == <<d_text, d_status, d_length, d_out>>

selVars == <<sel_selection, sel_total, sel_out>>

pxVars == <<px_intended, px_line, px_proxy, px_request>>

seqVars == <<t_mode, t_urls, t_include_ping, t_include_ip_check, t_pc, t_k, t_inflight, t_started, t_result, t_replies>>

mainVars == <<mn_pc, mn_proxies, mn_selected, mn_urls, mn_invalid, mn_started, mn_exit, mn_cause>>

slowVars == <<slow>>

vars == <<orchVars, recVars, multiVars, probeVars, detVars, selVars,
          pxVars, seqVars, mainVars, slowVars>>

\* The variables of the other specifications, which a specification leaves
\* at their idle values.
notOrch == <<recVars, multiVars, probeVars, detVars, selVars, pxVars,
              seqVars, mainVars, slowVars>>
notRec == <<orchVars, multiVars, probeVars, detVars, selVars, pxVars,
             seqVars, mainVars, slowVars>>
notMulti == <<orchVars, recVars, probeVars, detVars, selVars, pxVars,
               seqVars, mainVars, slowVars>>
notProbe == <<orchVars, recVars, multiVars, detVars, selVars, pxVars,
               seqVars, mainVars, slowVars>>
notDet == <<orchVars, recVars, multiVars, probeVars, selVars, pxVars,
             seqVars, mainVars, slowVars>>
notSel == <<orchVars, recVars, multiVars, probeVars, detVars, pxVars,
             seqVars, mainVars, slowVars>>
notPx == <<orchVars, recVars, multiVars, probeVars, detVars, selVars,
            seqVars, mainVars, slowVars>>
notSeq == <<orchVars, recVars, multiVars, probeVars, detVars, selVars,
             pxVars, mainVars, slowVars>>
notMain == <<orchVars, recVars, multiVars, probeVars, detVars, selVars,
              pxVars, seqVars, slowVars>>
notSlow == <<orchVars, recVars, multiVars, probeVars, detVars, selVars,
              pxVars, seqVars, mainVars>>

N == Len(proxies)
Indices == 1..N
UrlSet == Range(urls)

\* ------------------------------------------------------------------------
\* Records of tester.py.  The id field stands for the identity of the
\* Python object: the record task i builds has id i, a record the calling
\* thread builds for index i has id -i.
\* ------------------------------------------------------------------------
TestResult(id, proxy, success, http_error) ==
    [id |-> id, proxy |-> proxy, success |-> success, http_error |-> http_error]

URLTestResult(url, success, http_error) ==
    [url |-> url, success |-> success, http_error |-> http_error]

MultiURLTestResult(id, proxy, by_url) ==
    [id |-> id, proxy |-> proxy, url_results |-> by_url]

\* get_reference_response: the pair it returns; a failed fetch gives
\* (None, None) instead of raising.
get_reference_response(url, ok) ==
    IF ok THEN [hash |-> Some("md5 of " \o url), length |-> Some(1)]
          ELSE [hash |-> None, length |-> None]

\* What the worker's function returns for proxy i when it does not raise:
\* test_proxy_full in single-URL mode, test_proxy_multi_url in multi-URL mode.
test_proxy_full(i, ok) ==
    TestResult(i, proxies[i], ok, IF ok THEN None ELSE Some("Connection failed"))

test_proxy_multi_url(i, ok) ==
    MultiURLTestResult(i, proxies[i],
        [u \in UrlSet |->
            URLTestResult(u, ok, IF ok THEN None ELSE Some("Connection failed"))])

\* The except branch of the collection loop: the record built for index i
\* when future.result() raises.
FailedSingle(i) ==
    TestResult(0 - i, proxies[i], FALSE, Some("Test failed"))

FailedMulti_FirstUrlOnly(i) ==
    MultiURLTestResult(0 - i, proxies[i],
        [u \in {urls[1]} |-> URLTestResult(u, FALSE, Some("Test failed"))])

FailedMulti(i) ==
    MultiURLTestResult(0 - i, proxies[i],
        [u \in UrlSet |-> URLTestResult(u, FALSE, Some("Test failed"))])

FailedRecord(i) == IF mode = "single" THEN FailedSingle(i) ELSE FailedMulti(i)

Exception == [exception |-> TRUE]

Running == {i \in Indices : task[i] = "running"}
Finished == {i \in Indices : task[i] = "finished"}

\* ------------------------------------------------------------------------
\* Idle values of the variables a specification does not use
\* ------------------------------------------------------------------------
OrchIdle ==
    /\ mode = "single" /\ proxies = <<>> /\ urls = <<>> /\ max_workers = 1
    /\ has_callback = FALSE /\ pc = "idle" /\ ref_next = 1
    /\ reference_data = <<>> /\ ref_fetches = <<>> /\ n_submitted = 0
    /\ task = <<>> /\ queue = <<>> /\ future = <<>> /\ finish_order = <<>>
    /\ prefinished = {} /\ waiter = <<>> /\ collected = {} /\ results = <<>>
    /\ completed = 0 /\ calls = <<>> /\ cb_raised = FALSE
    /\ submit_count = <<>> /\ start_count = <<>>

RecIdle == rec = None /\ out_url = None /\ out_test = None

MultiIdle == url_results = <<>> /\ m_out = None

ProbeIdle ==
    /\ p_fn = "none" /\ p_pc = "idle" /\ p_response = None
    /\ p_result = None /\ p_exc = None

DetIdle == d_text = <<>> /\ d_status = 0 /\ d_length = 0 /\ d_out = None

SelIdle ==
    sel_selection = <<>> /\ sel_total = 0 /\ sel_out = None

PxIdle ==
    /\ px_intended = None /\ px_line = <<>> /\ px_proxy = None
    /\ px_request = None

SeqIdle ==
    /\ t_mode = "single" /\ t_urls = <<>> /\ t_include_ping = FALSE
    /\ t_include_ip_check = FALSE /\ t_pc = "idle" /\ t_k = 1
    /\ t_inflight = {} /\ t_started = <<>> /\ t_result = None
    /\ t_replies = <<>>

MainIdle ==
    /\ mn_pc = "idle" /\ mn_proxies = None /\ mn_selected = <<>> /\ mn_urls = <<>>
    /\ mn_invalid = FALSE /\ mn_started = FALSE /\ mn_exit = None
    /\ mn_cause = "none"

SlowIdle == slow = 0

\* ------------------------------------------------------------------------
\* Init: the state on entry of the orchestrator
\* ------------------------------------------------------------------------
OrchInit ==
    /\ mode \in {"single", "multi"}
    /\ \E n \in 0..MaxProxies : proxies = SubSeq(ProxyPool, 1, n)
    /\ urls \in UrlLists
    /\ mode = "single" => Len(urls) = 1
    /\ max_workers \in 1..MaxWorkers
    /\ has_callback \in BOOLEAN
    /\ pc = "reference"
    /\ ref_next = 1
    /\ reference_data = [u \in Urls |-> None]
    /\ ref_fetches = [u \in Urls |-> 0]
    /\ n_submitted = 0
    /\ task = [i \in 1..Len(proxies) |-> "unsubmitted"]
    /\ queue = <<>>
    /\ future = [i \in 1..Len(proxies) |-> None]
    /\ finish_order = <<>>
    /\ prefinished = {}
    /\ waiter = <<>>
    /\ collected = {}
    /\ results = <<>>
    /\ completed = 0
    /\ calls = <<>>
    /\ cb_raised = FALSE
    /\ submit_count = [i \in 1..Len(proxies) |-> 0]
    /\ start_count = [i \in 1..Len(proxies) |-> 0]

\* ------------------------------------------------------------------------
\* Actions of the calling thread
\* ------------------------------------------------------------------------

\* One reference fetch: line 258 (single URL) or one iteration of the loop
\* of lines 384-386 (multi URL).  After the last one the results list and
\* the counter are created (lines 260-261, 388-389).
FetchReference ==
    /\ UNCHANGED notOrch
    /\ pc = "reference"
    /\ ref_next <= Len(urls)
    /\ \E ok \in BOOLEAN :
         reference_data' = [reference_data EXCEPT
                               ![urls[ref_next]] = get_reference_response(urls[ref_next], ok)]
    /\ ref_fetches' = [ref_fetches EXCEPT ![urls[ref_next]] = @ + 1]
    /\ ref_next' = ref_next + 1
    /\ IF ref_next = Len(urls)
          THEN /\ pc' = "submit"
               /\ results' = [i \in Indices |-> None]
          ELSE UNCHANGED <<pc, results>>
    /\ UNCHANGED <<mode, proxies, urls, max_workers, has_callback, n_submitted,
                   task, queue, future, finish_order, prefinished, waiter,
                   collected, completed, calls, cb_raised, submit_count,
                   start_count>>

\* One executor.submit of the dict comprehension (lines 264-275, 392-402).
Submit ==
    /\ UNCHANGED notOrch
    /\ pc = "submit"
    /\ n_submitted < N
    /\ n_submitted' = n_submitted + 1
    /\ task' = [task EXCEPT ![n_submitted + 1] = "queued"]
    /\ queue' = Append(queue, n_submitted + 1)
    /\ submit_count' = [submit_count EXCEPT ![n_submitted + 1] = @ + 1]
    /\ UNCHANGED <<mode, proxies, urls, max_workers, has_callback, pc, ref_next,
                   reference_data, ref_fetches, future, finish_order,
                   prefinished, waiter, collected, results, completed, calls,
                   cb_raised, start_count>>

\* as_completed(future_to_index) starts (lines 277, 404): the futures that
\* are already finished are set aside to be yielded first.
BeginCollect ==
    /\ UNCHANGED notOrch
    /\ pc = "submit"
    /\ n_submitted = N
    /\ pc' = "collect"
    /\ prefinished' = Finished
    /\ waiter' = <<>>
    /\ UNCHANGED <<mode, proxies, urls, max_workers, has_callback, ref_next,
                   reference_data, ref_fetches, n_submitted, task, queue,
                   future, finish_order, collected, results, completed, calls,
                   cb_raised, submit_count, start_count>>

\* The futures as_completed may yield next: any of those finished before it
\* started, in no particular order, and after them the others in the order
\* they finished.
NextYield ==
    IF prefinished \ collected # {}
       THEN prefinished \ collected
       ELSE IF waiter # <<>> THEN {Head(waiter)} ELSE {}

\* The record the loop body obtains for index i: future.result(), or the
\* failed record of the except branch (lines 279-286, 406-415).
ResultOf(i) ==
    IF future[i] = Exception THEN FailedRecord(i) ELSE future[i]

\* The index the loop body stores the record at (lines 288, 417).
StoreIndex_CompletionOrder(i) == completed + 1

StoreIndex(i) == i

\* The arguments of progress_callback(completed, len(proxies), result)
\* (lines 289-292, 418-421): the counter is incremented before the call.
ProgressCall_StaleCount(i) ==
    [completed |-> completed, total |-> N, result |-> ResultOf(i), index |-> i]

ProgressCall(i) ==
    [completed |-> completed + 1, total |-> N, result |-> ResultOf(i), index |-> i]

\* One iteration of the as_completed loop (lines 277-292, 404-421): take the
\* result or build the failed record, store it at the proxy's index, count
\* it, report it.  An exception raised by progress_callback leaves the loop.
Collect(i) ==
    /\ UNCHANGED notOrch
    /\ pc = "collect"
    /\ i \in NextYield
    /\ collected' = collected \cup {i}
    /\ waiter' = IF prefinished \ collected # {} THEN waiter ELSE Tail(waiter)
    /\ results' = [results EXCEPT ![StoreIndex(i)] = ResultOf(i)]
    /\ completed' = completed + 1
    /\ IF has_callback
          THEN /\ calls' = Append(calls, ProgressCall(i))
               /\ \E raises \in BOOLEAN :
                    /\ cb_raised' = raises
                    /\ pc' = IF raises THEN "shutdown" ELSE pc
          ELSE UNCHANGED <<calls, cb_raised, pc>>
    /\ UNCHANGED <<mode, proxies, urls, max_workers, has_callback, ref_next,
                   reference_data, ref_fetches, n_submitted, task, queue,
                   future, finish_order, prefinished, submit_count,
                   start_count>>

\* The loop is exhausted, the with block is left (every task is done) and
\* the list is returned (lines 294, 423).
Return ==
    /\ UNCHANGED notOrch
    /\ pc = "collect"
    /\ collected = Indices
    /\ pc' = "returned"
    /\ UNCHANGED <<mode, proxies, urls, max_workers, has_callback, ref_next,
                   reference_data, ref_fetches, n_submitted, task, queue,
                   future, finish_order, prefinished, waiter, collected,
                   results, completed, calls, cb_raised, submit_count,
                   start_count>>

\* An exception leaves the with block: ThreadPoolExecutor.__exit__ waits for
\* every submitted task (shutdown(wait=True)), then the exception reaches
\* the caller.
Propagate ==
    /\ UNCHANGED notOrch
    /\ pc = "shutdown"
    /\ Finished = Indices
    /\ pc' = "raised"
    /\ UNCHANGED <<mode, proxies, urls, max_workers, has_callback, ref_next,
                   reference_data, ref_fetches, n_submitted, task, queue,
                   future, finish_order, prefinished, waiter, collected,
                   results, completed, calls, cb_raised, submit_count,
                   start_count>>

\* ------------------------------------------------------------------------
\* Actions of the worker threads
\* ------------------------------------------------------------------------

\* Whether the pool has a thread free for another work item
\* (ThreadPoolExecutor(max_workers=max_workers), lines 263, 391).
HasFreeWorker_NoCap == TRUE

HasFreeWorker == Cardinality(Running) < max_workers

\* A worker thread takes the oldest work item of the queue and starts
\* test_proxy_full / test_proxy_multi_url on it.
StartTask ==
    /\ UNCHANGED notOrch
    /\ queue # <<>>
    /\ HasFreeWorker
    /\ task' = [task EXCEPT ![Head(queue)] = "running"]
    /\ queue' = Tail(queue)
    /\ start_count' = [start_count EXCEPT ![Head(queue)] = @ + 1]
    /\ UNCHANGED <<mode, proxies, urls, max_workers, has_callback, pc, ref_next,
                   reference_data, ref_fetches, n_submitted, future,
                   finish_order, prefinished, waiter, collected, results,
                   completed, calls, cb_raised, submit_count>>

\* The outcomes of the worker's function for proxy i: the record it
\* returns, or an exception it raises.
TaskOutcomes(i) ==
    {Exception} \cup
    {IF mode = "single" THEN test_proxy_full(i, ok)
                        ELSE test_proxy_multi_url(i, ok) : ok \in BOOLEAN}

\* The worker's function ends for proxy i: the future is set to its result
\* or to its exception.  A future that finishes after as_completed started
\* is appended to the waiter's list.
FinishTask(i) ==
    /\ UNCHANGED notOrch
    /\ task[i] = "running"
    /\ task' = [task EXCEPT ![i] = "finished"]
    /\ \E o \in TaskOutcomes(i) : future' = [future EXCEPT ![i] = o]
    /\ finish_order' = Append(finish_order, i)
    /\ waiter' = IF pc = "collect" THEN Append(waiter, i) ELSE waiter
    /\ UNCHANGED <<mode, proxies, urls, max_workers, has_callback, pc, ref_next,
                   reference_data, ref_fetches, n_submitted, queue,
                   prefinished, collected, results, completed, calls,
                   cb_raised, submit_count, start_count>>

Next ==
    \/ FetchReference
    \/ Submit
    \/ BeginCollect
    \/ \E i \in Indices : Collect(i)
    \/ Return
    \/ Propagate
    \/ StartTask
    \/ \E i \in Indices : FinishTask(i)

Init == OrchInit /\ RecIdle /\ MultiIdle /\ ProbeIdle /\ DetIdle /\ SelIdle
    /\ PxIdle /\ SeqIdle /\ MainIdle /\ SlowIdle

Spec == Init /\ [][Next]_vars

\* ========================================================================
\* Properties of the orchestrator
\* ========================================================================

Done == pc = "returned"

\* Position of index i in the order the futures finished.
FinishPos(i) == CHOOSE k \in 1..Len(finish_order) : finish_order[k] = i

\* C1: when the call returns, the list has one entry per input proxy, entry
\* i is the record obtained for proxy i (the very record task i returned,
\* when it returned one), its proxy field is proxies[i], and no entry is
\* still the None placeholder - whatever the worker cap and the order in
\* which the tasks completed.
C1_ResultsOrderedAndComplete ==
    Done =>
        /\ Len(results) = N
        /\ \A i \in Indices :
             /\ results[i] # None
             /\ results[i].proxy = proxies[i]
             /\ future[i] # Exception => results[i] = future[i]
             /\ future[i] = Exception => results[i].id = 0 - i

\* A run of more proxies than workers has returned.
C1_Witness ==
    /\ Done
    /\ N >= 2
    /\ max_workers < N
    /\ \A i \in Indices : results[i] # None

\* C2: the record collected for a proxy whose task raised is a failed
\* record (success false, a 'Test failed' error text; in multi-URL mode one
\* such URLTestResult for every target URL), the record collected for any
\* other proxy is the one its task returned, a fault of a task alone never
\* makes the call end with an exception, and when the call returns every
\* entry is populated.
C2_FaultBecomesFailedRecord ==
    /\ \A i \in collected :
         IF future[i] = Exception
            THEN /\ results[i] # None
                 /\ results[i].proxy = proxies[i]
                 /\ IF mode = "single"
                       THEN /\ results[i].success = FALSE
                            /\ results[i].http_error = Some("Test failed")
                       ELSE /\ DOMAIN results[i].url_results = UrlSet
                            /\ \A u \in UrlSet :
                                 /\ results[i].url_results[u].url = u
                                 /\ results[i].url_results[u].success = FALSE
                                 /\ results[i].url_results[u].http_error = Some("Test failed")
            ELSE results[i] = future[i]
    /\ pc \in {"shutdown", "raised"} => cb_raised
    /\ Done => \A i \in Indices : results[i] # None

\* A multi-URL run over two target URLs has returned in which one task
\* raised and another returned its record.
C2_Witness ==
    /\ Done
    /\ mode = "multi"
    /\ Cardinality(UrlSet) = 2
    /\ \E i, j \in Indices : future[i] = Exception /\ future[j] # Exception

\* The k-th invocation of the callback is well formed: completed is k, total
\* is N, the result is the record stored at the proxy's index, and no proxy
\* is reported twice.
CallsWellFormed ==
    /\ ~has_callback => calls = <<>>
    /\ Len(calls) <= N
    /\ \A k \in 1..Len(calls) :
         /\ calls[k].completed = k
         /\ calls[k].total = N
         /\ calls[k].index \in Indices
         /\ task[calls[k].index] = "finished"
         /\ calls[k].result = results[calls[k].index]
    /\ \A k, l \in 1..Len(calls) : k # l => calls[k].index # calls[l].index

\* C3 as stated: the invocations are well formed, there are exactly N of
\* them when the call returns, and they are made in the order in which the
\* tasks completed.
C3_CallbackInCompletionOrder ==
    /\ CallsWellFormed
    /\ (has_callback /\ Done) => Len(calls) = N
    /\ \A k, l \in 1..Len(calls) :
         k < l => FinishPos(calls[k].index) < FinishPos(calls[l].index)

\* C3, amended: the invocations are well formed, there are exactly N of
\* them when the call returns, and they are made in the order as_completed
\* yields the futures: those already finished when the collection loop
\* starts come first, in no particular order, and the others follow in the
\* order in which their tasks completed.
C3_CallbackInYieldOrder ==
    /\ CallsWellFormed
    /\ (has_callback /\ Done) => Len(calls) = N
    /\ \A k, l \in 1..Len(calls) :
         k < l =>
            \/ calls[k].index \in prefinished
            \/ /\ calls[l].index \notin prefinished
               /\ FinishPos(calls[k].index) < FinishPos(calls[l].index)

\* A run with a callback has returned in which the tasks completed in an
\* order other than the input order, all after the collection loop started.
C3_Witness ==
    /\ Done
    /\ has_callback
    /\ N >= 2
    /\ Len(calls) = N
    /\ prefinished = {}
    /\ calls[1].index # 1

\* C4: at most max_workers test sequences run at the same time, one task is
\* submitted per input proxy (never more, and all of them once submission is
\* over), and each task is started at most once.
C4_BoundedPool ==
    /\ Cardinality(Running) <= max_workers
    /\ \A i \in Indices :
         /\ submit_count[i] <= 1
         /\ start_count[i] <= 1
         /\ start_count[i] <= submit_count[i]
         /\ submit_count[i] = (IF task[i] = "unsubmitted" THEN 0 ELSE 1)
         /\ task[i] \in {"running", "finished"} <=> start_count[i] = 1
         /\ pc \notin {"reference", "submit"} => submit_count[i] = 1

\* Every worker is busy and a submitted task waits in the queue.
C4_Witness ==
    /\ Cardinality(Running) = max_workers
    /\ queue # <<>>

\* C5: no run ends with an exception reaching the caller.
C5_NoExceptionReachesCaller ==
    pc # "raised"

\* C6 (state part): once the reference phase is over every target URL has
\* been fetched exactly once, no task is submitted or started before that,
\* and every fetched entry is a (hash, length) pair, absent when the fetch
\* failed.
C6_ReferenceFetchedOncePerUrl ==
    /\ pc # "reference" => \A u \in UrlSet : ref_fetches[u] = 1
    /\ \A u \in Urls : ref_fetches[u] <= 1
    /\ pc = "reference" => \A i \in Indices : task[i] = "unsubmitted"
    /\ \A u \in Urls :
         ref_fetches[u] >= 1 =>
            reference_data[u] \in {get_reference_response(u, ok) : ok \in BOOLEAN}

\* ========================================================================
\* Result records: is_working of URLTestResult and of TestResult
\* ========================================================================

\* Status codes and block confidences the records are drawn from.  A
\* confidence is kept in hundredths: 60 stands for 0.6.
StatusCodes == {200, 404, 499, 500, 503}
Confidences == {0, 50, 60, 61, 100}

\* BlockDetectionResult (detector.py), without its reason text.
BlockDetectionResult(is_blocked, confidence) ==
    [is_blocked |-> is_blocked, confidence |-> confidence]

BlockResults ==
    {BlockDetectionResult(b, c) : b \in BOOLEAN, c \in Confidences}

\* The fields is_working reads, any combination of them: a dataclass does
\* not tie one field to another.
RecordFields ==
    [success : BOOLEAN,
     http_status : {None} \cup {Some(c) : c \in StatusCodes},
     block_result : {None} \cup BlockResults]

\* URLTestResult.is_working (lines 24-31).
URLTestResult_is_working_BlockedAt60(r) ==
    IF ~r.success \/ r.http_status = None THEN FALSE
    ELSE IF r.http_status[1] >= 500 THEN FALSE
    ELSE IF r.block_result # None /\ r.block_result.is_blocked
               /\ r.block_result.confidence >= 60 THEN FALSE
    ELSE TRUE

URLTestResult_is_working(r) ==
    IF ~r.success \/ r.http_status = None THEN FALSE
    ELSE IF r.http_status[1] >= 500 THEN FALSE
    ELSE IF r.block_result # None /\ r.block_result.is_blocked
               /\ r.block_result.confidence > 60 THEN FALSE
    ELSE TRUE

\* TestResult.is_working (lines 71-78).
TestResult_is_working(r) ==
    IF ~r.success \/ r.http_status = None THEN FALSE
    ELSE IF r.http_status[1] >= 500 THEN FALSE
    ELSE IF r.block_result # None /\ r.block_result.is_blocked
               /\ r.block_result.confidence > 60 THEN FALSE
    ELSE TRUE

RecInit ==
    /\ rec \in RecordFields
    /\ out_url = None
    /\ out_test = None

\* is_working() is called on a URLTestResult holding the fields.
CallURLTestResultIsWorking ==
    /\ UNCHANGED notRec
    /\ rec # None
    /\ out_url' = Some(URLTestResult_is_working(rec))
    /\ UNCHANGED <<rec, out_test>>

\* is_working() is called on a TestResult holding the fields.
CallTestResultIsWorking ==
    /\ UNCHANGED notRec
    /\ rec # None
    /\ out_test' = Some(TestResult_is_working(rec))
    /\ UNCHANGED <<rec, out_url>>

NextRecord ==
    \/ CallURLTestResultIsWorking
    \/ CallTestResultIsWorking

InitRecord == OrchIdle /\ RecInit /\ MultiIdle /\ ProbeIdle /\ DetIdle
    /\ SelIdle /\ PxIdle /\ SeqIdle /\ MainIdle /\ SlowIdle

SpecRecord == InitRecord /\ [][NextRecord]_vars

\* The predicate of the claim: success, a status that is present and below
\* 500, and no block result that is blocked with confidence above 0.6.
WorkingByDefinition(r) ==
    /\ r.success = TRUE
    /\ r.http_status # None
    /\ r.http_status[1] < 500
    /\ ~(/\ r.block_result # None
         /\ r.block_result.is_blocked = TRUE
         /\ r.block_result.confidence > 60)

\* C7: what is_working returns, for either record type, is exactly the
\* predicate of the claim; it is false for a status of 500 or more and for a
\* blocked result of confidence above 0.6 whatever the status; and on equal
\* fields the two record types answer alike.
C7_IsWorking ==
    /\ out_url # None =>
         /\ out_url = Some(WorkingByDefinition(rec))
         /\ (rec.http_status # None /\ rec.http_status[1] >= 500) => out_url = Some(FALSE)
         /\ (/\ rec.block_result # None
             /\ rec.block_result.is_blocked
             /\ rec.block_result.confidence > 60) => out_url = Some(FALSE)
    /\ out_test # None =>
         /\ out_test = Some(WorkingByDefinition(rec))
         /\ (rec.http_status # None /\ rec.http_status[1] >= 500) => out_test = Some(FALSE)
         /\ (/\ rec.block_result # None
             /\ rec.block_result.is_blocked
             /\ rec.block_result.confidence > 60) => out_test = Some(FALSE)
    /\ (out_url # None /\ out_test # None) => out_url = out_test

\* Both methods were called on a successful record of status 200 whose
\* block result is blocked with confidence 0.61, and answered false.
C7_Witness ==
    /\ rec # None
    /\ rec.success
    /\ rec.http_status = Some(200)
    /\ rec.block_result = BlockDetectionResult(TRUE, 61)
    /\ out_url = Some(FALSE)
    /\ out_test = Some(FALSE)

\* ========================================================================
\* MultiURLTestResult: working_count, total_count, is_fully_working,
\* avg_latency
\* ========================================================================

\* The URLs a url_results dict is keyed by: at most MaxUrls of them.
UrlPool == <<"u1", "u2", "u3", "u4">>
KeyUrls == {UrlPool[k] : k \in 1..MaxUrls}

\* The URLTestResult values a dict holds: the fields the derived values
\* read.  A latency is in milliseconds; Some(0) is a measured latency of 0.
UrlResultFields ==
    [success : BOOLEAN,
     http_status : {None, Some(200), Some(503)},
     block_result : {None, BlockDetectionResult(TRUE, 90)},
     latency_ms : {None, Some(0), Some(120), Some(300)}]

RECURSIVE SumOver(_, _)
\* The sum of f[k] over the keys k of D.
SumOver(D, f) ==
    IF D = {} THEN 0
    ELSE LET k == CHOOSE x \in D : TRUE
         IN  f[k] + SumOver(D \ {k}, f)

\* MultiURLTestResult.working_count (lines 42-43).
working_count(ur) ==
    Cardinality({u \in DOMAIN ur : URLTestResult_is_working(ur[u])})

\* MultiURLTestResult.total_count (lines 45-46).
total_count(ur) == Cardinality(DOMAIN ur)

\* MultiURLTestResult.is_fully_working (lines 48-49).
is_fully_working_NoEmptyCheck(ur) ==
    \A u \in DOMAIN ur : URLTestResult_is_working(ur[u])

is_fully_working(ur) ==
    /\ Cardinality(DOMAIN ur) > 0
    /\ \A u \in DOMAIN ur : URLTestResult_is_working(ur[u])

\* Python's truth value of an Optional[float]: None and 0.0 are false.
Truthy(latency) == latency # None /\ latency[1] # 0

\* MultiURLTestResult.avg_latency (lines 51-54): the keys whose latency
\* enters the list, and sum(latencies) / len(latencies) as a fraction, or
\* None for an empty list.
LatencyKeys(ur) ==
    {u \in DOMAIN ur : URLTestResult_is_working(ur[u]) /\ Truthy(ur[u].latency_ms)}

avg_latency(ur) ==
    IF LatencyKeys(ur) = {} THEN None
    ELSE Some([num |-> SumOver(LatencyKeys(ur), [u \in DOMAIN ur |-> ur[u].latency_ms[1]]),
               den |-> Cardinality(LatencyKeys(ur))])

MultiInit ==
    /\ \E D \in SUBSET KeyUrls : url_results \in [D -> UrlResultFields]
    /\ m_out = None

CallWorkingCount ==
    /\ UNCHANGED notMulti
    /\ m_out' = [op |-> "working_count", value |-> working_count(url_results)]
    /\ UNCHANGED url_results

CallTotalCount ==
    /\ UNCHANGED notMulti
    /\ m_out' = [op |-> "total_count", value |-> total_count(url_results)]
    /\ UNCHANGED url_results

CallIsFullyWorking ==
    /\ UNCHANGED notMulti
    /\ m_out' = [op |-> "is_fully_working", value |-> is_fully_working(url_results)]
    /\ UNCHANGED url_results

CallAvgLatency ==
    /\ UNCHANGED notMulti
    /\ m_out' = [op |-> "avg_latency", value |-> avg_latency(url_results)]
    /\ UNCHANGED url_results

NextMulti ==
    \/ CallWorkingCount
    \/ CallTotalCount
    \/ CallIsFullyWorking
    \/ CallAvgLatency

InitMulti == OrchIdle /\ RecIdle /\ MultiInit /\ ProbeIdle /\ DetIdle
    /\ SelIdle /\ PxIdle /\ SeqIdle /\ MainIdle /\ SlowIdle

SpecMulti == InitMulti /\ [][NextMulti]_vars

Called(op) == m_out # None /\ m_out.op = op

\* C8: is_fully_working() is false for an empty url_results and otherwise
\* true exactly when every contained result is working; it holds exactly
\* when total_count() > 0 and working_count() = total_count(); and
\* working_count() lies between 0 and total_count().
C8_FullyWorking ==
    /\ Called("is_fully_working") =>
         /\ DOMAIN url_results = {} => m_out.value = FALSE
         /\ DOMAIN url_results # {} =>
              (m_out.value <=> \A u \in DOMAIN url_results : WorkingByDefinition(url_results[u]))
         /\ m_out.value <=> (/\ total_count(url_results) > 0
                             /\ working_count(url_results) = total_count(url_results))
    /\ Called("working_count") =>
         /\ m_out.value >= 0
         /\ m_out.value <= total_count(url_results)
    /\ Called("total_count") =>
         /\ m_out.value = Cardinality(DOMAIN url_results)
         /\ m_out.value >= working_count(url_results)

\* is_fully_working() was called on an empty url_results.
C8_Witness ==
    /\ Called("is_fully_working")
    /\ DOMAIN url_results = {}
    /\ m_out.value = FALSE

\* The URL results that are working and have a recorded latency, a latency
\* of zero included.
Recorded(ur) ==
    {u \in DOMAIN ur : WorkingByDefinition(ur[u]) /\ ur[u].latency_ms # None}

\* C9: avg_latency() is absent exactly when no URL result is both working
\* and has a recorded latency, and otherwise it is the mean of the recorded
\* latencies of the working URL results, a latency of zero counting as
\* recorded.
C9_AvgLatencyOverRecorded ==
    Called("avg_latency") =>
        /\ m_out.value = None <=> Recorded(url_results) = {}
        /\ m_out.value # None =>
             m_out.value[1].num * Cardinality(Recorded(url_results))
               = m_out.value[1].den
                   * SumOver(Recorded(url_results),
                             [u \in Recorded(url_results) |-> url_results[u].latency_ms[1]])

\* ========================================================================
\* The single-proxy prober: test_http (lines 85-153) and test_http_for_url
\* (lines 302-358)
\* ========================================================================

\* TestResult(proxy=proxy) and URLTestResult(url=url) with the defaults of
\* the dataclasses (lines 87, 304).
NewTestResult(proxy) ==
    [proxy |-> proxy, success |-> FALSE, http_status |-> None,
     http_error |-> None, latency_ms |-> None, download_speed_kbps |-> None,
     content_length |-> 0, block_result |-> None, ping_ms |-> None,
     ping_error |-> None, detected_ip |-> None]

NewURLTestResult(url) ==
    [url |-> url, success |-> FALSE, http_status |-> None,
     http_error |-> None, latency_ms |-> None, download_speed_kbps |-> None,
     content_length |-> 0, block_result |-> None]

\* The exceptions the body of the try block raises: those of requests, and
\* any other Exception.
ExceptionKinds ==
    {"ProxyError", "ConnectTimeout", "ReadTimeout", "SSLError",
     "ConnectionError", "Timeout", "OtherException"}

\* The classes of requests.exceptions an exception of a kind is an
\* instance of.
ClassesOf(kind) ==
    CASE kind = "ProxyError" -> {"ProxyError", "ConnectionError", "Exception"}
      [] kind = "ConnectTimeout" -> {"ConnectTimeout", "ConnectionError", "Timeout", "Exception"}
      [] kind = "ReadTimeout" -> {"ReadTimeout", "Timeout", "Exception"}
      [] kind = "SSLError" -> {"SSLError", "ConnectionError", "Exception"}
      [] kind = "ConnectionError" -> {"ConnectionError", "Exception"}
      [] kind = "Timeout" -> {"Timeout", "Exception"}
      [] OTHER -> {"Exception"}

\* The except clauses in their order (lines 134-151, 345-356) and the error
\* text each one records; the text of the exception, cut to 50 characters,
\* is left out.
ExceptClauses ==
    << <<"ProxyError", "Proxy connection failed">>,
       <<"ConnectTimeout", "Connection timeout">>,
       <<"ReadTimeout", "Read timeout">>,
       <<"SSLError", "SSL Error: ">>,
       <<"ConnectionError", "Connection failed">>,
       <<"Exception", "Error: ">> >>

\* The error text of the first except clause that matches the exception.
ErrorText(kind) ==
    LET k == CHOOSE j \in 1..Len(ExceptClauses) :
                /\ ExceptClauses[j][1] \in ClassesOf(kind)
                /\ \A h \in 1..(j - 1) : ExceptClauses[h][1] \notin ClassesOf(kind)
    IN  ExceptClauses[k][2]

\* The handler that runs for an exception: it records the error text and
\* leaves success false; no other field is touched.
Handle(result, kind) ==
    [result EXCEPT !.http_error = Some(ErrorText(kind)), !.success = FALSE]

\* The responses requests.get returns: a status code, the length of the
\* body, and the time the request took in milliseconds.
Responses ==
    [status_code : {200, 403, 503}, length : {0, 2048}, elapsed_ms : {0, 40}]

\* The results detect_block returns to the prober.
DetectResults ==
    {BlockDetectionResult(FALSE, 0), BlockDetectionResult(TRUE, 80)}

ProbeInit ==
    /\ p_fn \in {"test_http", "test_http_for_url"}
    /\ p_pc = "try"
    /\ p_response = None
    /\ p_result = IF p_fn = "test_http" THEN NewTestResult("pA")
                                        ELSE NewURLTestResult("u1")
    /\ p_exc = None

\* proxy.get_request_proxies() and requests.get (lines 104-115, 315-326):
\* a response arrives, or an exception is raised and handled.
Request ==
    /\ UNCHANGED notProbe
    /\ p_pc = "try"
    /\ \/ \E resp \in Responses :
            /\ p_response' = resp
            /\ p_pc' = "response"
            /\ UNCHANGED <<p_result, p_exc>>
       \/ \E kind \in ExceptionKinds :
            /\ p_exc' = Some(kind)
            /\ p_result' = Handle(p_result, kind)
            /\ p_pc' = "return"
            /\ UNCHANGED p_response
    /\ UNCHANGED p_fn

\* Lines 117-122, 328-333: latency, status, content length, and the
\* throughput when the latency is above zero.
Record ==
    /\ UNCHANGED notProbe
    /\ p_pc = "response"
    /\ p_result' = [p_result EXCEPT
          !.latency_ms = Some(p_response.elapsed_ms),
          !.http_status = Some(p_response.status_code),
          !.content_length = p_response.length,
          !.download_speed_kbps =
              IF p_response.elapsed_ms > 0
                 THEN Some([num |-> p_response.length * 1000,
                            den |-> 1024 * p_response.elapsed_ms])
                 ELSE @]
    /\ p_pc' = "recorded"
    /\ UNCHANGED <<p_fn, p_response, p_exc>>

\* Lines 124-130, 335-341: response.text is decoded and detect_block is
\* called on it; its result is stored, or an exception raised there is
\* handled by the except Exception clause.
Detect ==
    /\ UNCHANGED notProbe
    /\ p_pc = "recorded"
    /\ \/ \E b \in DetectResults :
            /\ p_result' = [p_result EXCEPT !.block_result = b]
            /\ p_pc' = "detected"
            /\ UNCHANGED p_exc
       \/ /\ p_exc' = Some("OtherException")
          /\ p_result' = Handle(p_result, "OtherException")
          /\ p_pc' = "return"
    /\ UNCHANGED <<p_fn, p_response>>

\* Lines 132, 343: result.success = True.
Succeed ==
    /\ UNCHANGED notProbe
    /\ p_pc = "detected"
    /\ p_result' = [p_result EXCEPT !.success = TRUE]
    /\ p_pc' = "return"
    /\ UNCHANGED <<p_fn, p_response, p_exc>>

\* Lines 153, 358: return result.
ReturnResult ==
    /\ UNCHANGED notProbe
    /\ p_pc = "return"
    /\ p_pc' = "returned"
    /\ UNCHANGED <<p_fn, p_response, p_result, p_exc>>

NextProber ==
    \/ Request
    \/ Record
    \/ Detect
    \/ Succeed
    \/ ReturnResult

InitProber == OrchIdle /\ RecIdle /\ MultiIdle /\ ProbeInit /\ DetIdle
    /\ SelIdle /\ PxIdle /\ SeqIdle /\ MainIdle /\ SlowIdle

SpecProber == InitProber /\ [][NextProber]_vars

\* The two shapes of the claim.
SuccessShape(r) ==
    /\ r.success = TRUE
    /\ r.http_status # None
    /\ r.latency_ms # None
    /\ r.block_result # None
    /\ r.http_error = None

FailureShape(r) ==
    /\ r.success = FALSE
    /\ r.http_error # None
    /\ r.http_status = None
    /\ r.latency_ms = None
    /\ r.download_speed_kbps = None
    /\ r.block_result = None
    /\ r.content_length = 0

\* C10: the prober always returns a record, never an exception, and the
\* record it returns has the success shape or the failure shape, at
\* whichever step of the probe a failure occurred.
C10_TwoShapes ==
    /\ p_pc \in {"idle", "try", "response", "recorded", "detected", "return", "returned"}
    /\ p_pc = "returned" => (SuccessShape(p_result) \/ FailureShape(p_result))

\* ========================================================================
\* detector.py: detect_block
\* ========================================================================
\* A response text is a sequence of pieces: the two title tags and phrases
\* as they stand in a page.  Confidence values are hundredths, as in the
\* records above.
TextPieces ==
    {"<title>", "</title>", "Access Denied", "Request Blocked",
     "Checking your browser", "captcha", "reCAPTCHA"}

\* The texts: every sequence of up to MaxPieces pieces, and the pages with
\* one phrase in the title and at most one phrase before and after it.
Texts ==
    LET Phrases == TextPieces \ {"<title>", "</title>"}
        AtMostOne == {<<>>} \cup {<<p>> : p \in Phrases}
    IN  UNION {[1..n -> TextPieces] : n \in 0..MaxPieces}
        \cup {b \o <<"<title>", p, "</title>">> \o c :
                b \in AtMostOne, p \in Phrases, c \in AtMostOne}

DetStatusCodes == {200, 204, 403, 404, 429}

DetLengths ==
    {0, 99, 100, 499, 500, 2999, 3000, 4999, 5000, 9999, 10000, 20000,
     20001, 50000, 50001, 60000}

HIGH_CONFIDENCE_KEYWORDS ==
    <<"access denied", "403 forbidden", "401 unauthorized",
      "your ip has been blocked", "ip blocked", "ip banned",
      "you have been blocked", "sorry, you have been blocked",
      "request blocked", "access denied - akamai">>

MEDIUM_CONFIDENCE_KEYWORDS ==
    <<"verify you are human", "human verification", "checking your browser",
      "please wait while we verify", "enable javascript and cookies",
      "too many requests", "rate limit exceeded">>

LOW_CONFIDENCE_KEYWORDS ==
    <<"captcha", "recaptcha", "hcaptcha", "cloudflare", "security check">>

\* str.lower() of one piece.
LowerPiece(piece) ==
    CASE piece = "Access Denied" -> "access denied"
      [] piece = "Request Blocked" -> "request blocked"
      [] piece = "Checking your browser" -> "checking your browser"
      [] piece = "reCAPTCHA" -> "recaptcha"
      [] OTHER -> piece

\* response_text.lower()
lower_AsWritten(text) == text

lower(text) == [k \in DOMAIN text |-> LowerPiece(text[k])]

\* keyword in piece, for a lower-cased piece: the piece is the keyword or
\* holds it as a proper substring.
InPiece(keyword, piece) ==
    \/ keyword = piece
    \/ keyword = "captcha" /\ piece = "recaptcha"

\* keyword in text
In(keyword, text) == \E k \in DOMAIN text : InPiece(keyword, text[k])

\* re.search(r'<title[^>]*>(.*?)</title>', content_lower, ...): the
\* leftmost opening tag that a closing tag follows, and the nearest closing
\* tag after it; group(1) is what stands between them.  None if no match.
title_match(content_lower) ==
    LET opens == {o \in DOMAIN content_lower :
                    /\ content_lower[o] = "<title>"
                    /\ \E c \in DOMAIN content_lower :
                          c > o /\ content_lower[c] = "</title>"}
    IN  IF opens = {} THEN None
        ELSE LET o == CHOOSE x \in opens : \A y \in opens : x <= y
                 c == CHOOSE x \in DOMAIN content_lower :
                        /\ x > o /\ content_lower[x] = "</title>"
                        /\ \A y \in DOMAIN content_lower :
                              (y > o /\ content_lower[y] = "</title>") => x <= y
             IN  Some(SubSeq(content_lower, o + 1, c - 1))

title_text(content_lower) ==
    IF title_match(content_lower) # None THEN title_match(content_lower)[1]
                                         ELSE <<>>

\* What one step of detect_block adds to confidence and to reasons.
Nothing == [add |-> 0, reasons |-> <<>>]
Signal(add, label, detail) == [add |-> add, reasons |-> <<<<label, detail>>>>]

\* lines 64-66
StatusStep(status_code) ==
    IF status_code \in {403, 429}
    THEN Signal(30, "HTTP", status_code)
    ELSE Nothing

\* lines 68-76: the loop over HIGH_CONFIDENCE_KEYWORDS from keyword k on;
\* each keyword is looked up in the title first and in the body next, and
\* the first keyword found either way ends the loop.
RECURSIVE HighLoop(_, _, _, _)
HighLoop(k, title, content_lower, content_length) ==
    IF k > Len(HIGH_CONFIDENCE_KEYWORDS) THEN Nothing
    ELSE LET keyword == HIGH_CONFIDENCE_KEYWORDS[k]
         IN  IF In(keyword, title)
             THEN Signal(50, "Block indicator in title", keyword)
             ELSE IF In(keyword, content_lower) /\ content_length < 5000
             THEN Signal(30, "Block indicator", keyword)
             ELSE HighLoop(k + 1, title, content_lower, content_length)

HighStep(title, content_lower, content_length) ==
    HighLoop(1, title, content_lower, content_length)

\* lines 78-83
MediumStep(content_lower, content_length) ==
    LET found == {k \in DOMAIN MEDIUM_CONFIDENCE_KEYWORDS :
                    In(MEDIUM_CONFIDENCE_KEYWORDS[k], content_lower)}
    IN  IF content_length < 10000 /\ found # {}
        THEN Signal(20, "Possible block",
                    MEDIUM_CONFIDENCE_KEYWORDS[CHOOSE k \in found :
                                                  \A j \in found : k <= j])
        ELSE Nothing

\* lines 85-89
low_count(content_lower) ==
    Cardinality({k \in DOMAIN LOW_CONFIDENCE_KEYWORDS :
                    In(LOW_CONFIDENCE_KEYWORDS[k], content_lower)})

LowStep(content_lower, content_length) ==
    IF content_length < 3000 /\ low_count(content_lower) >= 2
    THEN Signal(15, "Multiple security indicators", "")
    ELSE Nothing

\* lines 91-93
ShortStep(status_code, content_length) ==
    IF content_length < 500 /\ status_code >= 400
    THEN Signal(20, "Short error response", "")
    ELSE Nothing

\* lines 95-97
EmptyStep(status_code, content_length) ==
    IF content_length < 100 /\ status_code # 204
    THEN Signal(30, "Nearly empty response", "")
    ELSE Nothing

\* The steps in the order the code runs them.
Steps(response_text, status_code, content_length) ==
    LET content_lower == lower(response_text)
    IN  << StatusStep(status_code),
           HighStep(title_text(content_lower), content_lower, content_length),
           MediumStep(content_lower, content_length),
           LowStep(content_lower, content_length),
           ShortStep(status_code, content_length),
           EmptyStep(status_code, content_length) >>

RECURSIVE SumAdds(_, _)
SumAdds(steps, k) ==
    IF k = 0 THEN 0 ELSE SumAdds(steps, k - 1) + steps[k].add

RECURSIVE AllReasons(_, _)
AllReasons(steps, k) ==
    IF k = 0 THEN <<>> ELSE AllReasons(steps, k - 1) \o steps[k].reasons

\* lines 99-102.  The products are whole hundredths: above 20000 bytes
\* only the status step and a title match can have fired, so the sum is
\* 0, 30, 50 or 80.
Dampen_Never(confidence, content_length) == confidence

Dampen(confidence, content_length) ==
    IF content_length > 50000 THEN (confidence * 3) \div 10
    ELSE IF content_length > 20000 THEN (confidence * 5) \div 10
    ELSE confidence

\* line 104
Min(a, b) == IF a <= b THEN a ELSE b

\* line 107: "; ".join(reasons) if reasons else None
JoinReasons_AlwaysText(reasons) == Some(reasons)

JoinReasons(reasons) == IF reasons # <<>> THEN Some(reasons) ELSE None

\* lines 54-113.  The record is BlockDetectionResult with its reason field.
detect_block(response_text, status_code, content_length) ==
    LET steps == Steps(response_text, status_code, content_length)
        confidence ==
            Min(100, Dampen(SumAdds(steps, Len(steps)), content_length))
    IN  [is_blocked |-> confidence >= 50,
         reason |-> JoinReasons(AllReasons(steps, Len(steps))),
         confidence |-> confidence]

DetInit ==
    /\ d_text \in Texts
    /\ d_status \in DetStatusCodes
    /\ d_length \in DetLengths
    /\ d_out = None

CallDetectBlock ==
    /\ UNCHANGED notDet
    /\ d_out = None
    /\ d_out' = detect_block(d_text, d_status, d_length)
    /\ UNCHANGED <<d_text, d_status, d_length>>

NextDetector == CallDetectBlock

InitDetector == OrchIdle /\ RecIdle /\ MultiIdle /\ ProbeIdle /\ DetInit
    /\ SelIdle /\ PxIdle /\ SeqIdle /\ MainIdle /\ SlowIdle

SpecDetector == InitDetector /\ [][NextDetector]_vars

\* The undamped sum of the steps of the call.
Undamped == SumAdds(Steps(d_text, d_status, d_length), 6)

\* C11: for a response whose content length is greater than 20000 bytes,
\* whatever its status code and body, detect_block returns is_blocked = false:
\* the undamped sum of the signals is at most 0.8, the confidence at most
\* 0.4, and at most 0.24 above 50000 bytes.
C11_LargeBodyNeverBlocked ==
    (d_out # None /\ d_length > 20000) =>
        /\ d_out.is_blocked = FALSE
        /\ Undamped <= 80
        /\ d_out.confidence <= 40
        /\ d_length > 50000 => d_out.confidence <= 24

\* A large page with status 403 and a block phrase in its title: the
\* largest sum, damped to 0.24.
C11_Witness ==
    /\ d_out # None /\ d_length = 60000 /\ d_status = 403
    /\ In("access denied", title_text(lower(d_text)))
    /\ Undamped = 80 /\ d_out.confidence = 24 /\ ~d_out.is_blocked

\* C12: for an HTML body whose <title> text contains 'access denied' in any
\* letter case, with status code 403 and content length at most 20000,
\* detect_block returns is_blocked = true and confidence >= 0.8.
C12_AccessDeniedTitleBlocked ==
    ( /\ d_out # None
      /\ \E k \in DOMAIN title_text(d_text) :
            title_text(d_text)[k] = "Access Denied"
      /\ d_status = 403
      /\ d_length <= 20000 ) =>
        /\ d_out.is_blocked = TRUE
        /\ d_out.confidence >= 80

\* The page of the claim at the largest length that is not damped: exactly
\* 0.3 + 0.5.
C12_Witness ==
    /\ d_out # None
    /\ d_text = <<"<title>", "Access Denied", "</title>">>
    /\ d_status = 403 /\ d_length = 20000
    /\ d_out.confidence = 80 /\ d_out.is_blocked

\* ========================================================================
\* proxy_parser.py: parse_selection
\* ========================================================================
\* A string is the sequence of its characters.
SelChars == {"1", "3", ",", "-", " ", "a", "l", "A"}

Selections == UNION {[1..n -> SelChars] : n \in 0..MaxChars}

Digits == {"0", "1", "2", "3", "4", "5", "6", "7", "8", "9"}

DigitValue(c) ==
    CASE c = "0" -> 0 [] c = "1" -> 1 [] c = "2" -> 2 [] c = "3" -> 3
      [] c = "4" -> 4 [] c = "5" -> 5 [] c = "6" -> 6 [] c = "7" -> 7
      [] c = "8" -> 8 [] c = "9" -> 9

\* str.strip(): the string without its leading and trailing blanks.
RECURSIVE strip(_)
strip(s) ==
    IF s = <<>> THEN s
    ELSE IF Head(s) = " " THEN strip(Tail(s))
    ELSE IF s[Len(s)] = " " THEN strip(SubSeq(s, 1, Len(s) - 1))
    ELSE s

\* str.lower()
str_lower(s) == [k \in DOMAIN s |-> IF s[k] = "A" THEN "a" ELSE s[k]]

\* s.replace(c, '')
remove(s, c) == SelectSeq(s, LAMBDA x : x # c)

\* s.split(sep): the pieces between the separators; always at least one.
RECURSIVE split(_, _)
split(s, sep) ==
    IF \A k \in DOMAIN s : s[k] # sep THEN <<s>>
    ELSE LET k == CHOOSE x \in DOMAIN s :
                    s[x] = sep /\ \A y \in 1..(x - 1) : s[y] # sep
         IN  <<SubSeq(s, 1, k - 1)>> \o split(SubSeq(s, k + 1, Len(s)), sep)

\* The value of a string of digits.
RECURSIVE DecimalValue(_)
DecimalValue(s) ==
    IF s = <<>> THEN 0
    ELSE 10 * DecimalValue(SubSeq(s, 1, Len(s) - 1)) + DigitValue(s[Len(s)])

\* int(s) for a string without sign, blank or underscore: Some(value), or
\* None when it raises ValueError.
int(s) ==
    IF s # <<>> /\ \A k \in DOMAIN s : s[k] \in Digits
    THEN Some(DecimalValue(s))
    ELSE None

\* lines 144-153: the indices the range part adds; nothing when the unpacking
\* of split('-') or one of the two int() calls raises ValueError.
RangePart_Unclipped(part, total) ==
    LET ends == split(part, "-")
    IN  IF Len(ends) # 2 \/ int(ends[1]) = None \/ int(ends[2]) = None
        THEN {}
        ELSE (int(ends[1])[1] - 1)..(int(ends[2])[1] - 1)

RangePart(part, total) ==
    LET ends == split(part, "-")
    IN  IF Len(ends) # 2 \/ int(ends[1]) = None \/ int(ends[2]) = None
        THEN {}
        ELSE LET start == int(ends[1])[1] - 1
                 end == int(ends[2])[1] - 1
             IN  {i \in start..end : 0 <= i /\ i < total}

\* lines 154-160: the index a part without '-' adds.
IndexPart(part, total) ==
    IF int(part) = None THEN {}
    ELSE LET idx == int(part)[1] - 1
         IN  IF 0 <= idx /\ idx < total THEN {idx} ELSE {}

\* lines 143-160: one iteration of the loop over the parts.
PartIndices(part, total) ==
    IF \E k \in DOMAIN part : part[k] = "-"
    THEN RangePart(part, total)
    ELSE IndexPart(part, total)

\* sorted(list(indices))
RECURSIVE sorted(_)
sorted(indices) ==
    IF indices = {} THEN <<>>
    ELSE LET least == CHOOSE x \in indices : \A y \in indices : x <= y
         IN  <<least>> \o sorted(indices \ {least})

\* list(range(total))
range(total) == [k \in 1..total |-> k - 1]

\* lines 131-162
parse_selection(selection, total) ==
    LET stripped == str_lower(strip(selection))
    IN  IF stripped = <<"a", "l", "l">> THEN range(total)
        ELSE LET parts == split(remove(stripped, " "), ",")
             IN  sorted(UNION {PartIndices(parts[k], total) : k \in DOMAIN parts})

SelInit ==
    /\ sel_selection \in Selections
    /\ sel_total \in 0..MaxTotal
    /\ sel_out = None

CallParseSelection ==
    /\ UNCHANGED notSel
    /\ sel_out = None
    /\ sel_out' = Some(parse_selection(sel_selection, sel_total))
    /\ UNCHANGED <<sel_selection, sel_total>>

NextSelection == CallParseSelection

InitSelection == OrchIdle /\ RecIdle /\ MultiIdle /\ ProbeIdle /\ DetIdle
    /\ SelInit /\ PxIdle /\ SeqIdle /\ MainIdle /\ SlowIdle

SpecSelection == InitSelection /\ [][NextSelection]_vars

\* What the selection says, read off the string itself.  Blanks do not
\* count; a token is what stands between two commas or string ends.
IsAll(selection) ==
    \E a, b \in 0..Len(selection) :
        /\ \A k \in 1..a : selection[k] = " "
        /\ \A k \in (Len(selection) - b + 1)..Len(selection) : selection[k] = " "
        /\ Len(selection) = a + b + 3
        /\ selection[a + 1] \in {"a", "A"}
        /\ selection[a + 2] = "l" /\ selection[a + 3] = "l"

Tokens(selection) ==
    LET t == remove(selection, " ")
    IN  {SubSeq(t, a, b) : <<a, b>> \in
            {ab \in (DOMAIN t) \X (DOMAIN t) :
                /\ ab[1] <= ab[2]
                /\ \A k \in ab[1]..ab[2] : t[k] # ","
                /\ ab[1] = 1 \/ t[ab[1] - 1] = ","
                /\ ab[2] = Len(t) \/ t[ab[2] + 1] = ","}}

IsNumber(s) == s # <<>> /\ \A k \in DOMAIN s : s[k] \in Digits

\* The 1-based indices a token names: its number, or the numbers of its
\* inclusive range; a malformed token names none.
Named(token) ==
    IF IsNumber(token) THEN {DecimalValue(token)}
    ELSE UNION {DecimalValue(SubSeq(token, 1, d - 1))
                    ..DecimalValue(SubSeq(token, d + 1, Len(token))) :
                d \in {x \in DOMAIN token :
                        /\ token[x] = "-"
                        /\ IsNumber(SubSeq(token, 1, x - 1))
                        /\ IsNumber(SubSeq(token, x + 1, Len(token)))}}

StrictlyIncreasing(list) ==
    \A j, k \in DOMAIN list : j < k => list[j] < list[k]

SelShape ==
    /\ StrictlyIncreasing(sel_out[1])
    /\ \A k \in DOMAIN sel_out[1] :
          0 <= sel_out[1][k] /\ sel_out[1][k] < sel_total
    /\ IsAll(sel_selection) => sel_out[1] = range(sel_total)
    /\ parse_selection(<<"2", ",", "4", "-", "6">>, 10) = <<1, 3, 4, 5>>

\* C13 as stated: the list is strictly increasing and within [0, N), 'all'
\* yields every index, and otherwise the list holds what the in-range
\* well-formed tokens name, a token with an index outside 1..N contributing
\* nothing.
C13_OutOfRangeTokensDropped ==
    sel_out # None =>
        /\ SelShape
        /\ ~IsAll(sel_selection) =>
              Range(sel_out[1]) =
                  {i - 1 : i \in UNION {Named(t) : t \in
                      {x \in Tokens(sel_selection) :
                          Named(x) \subseteq 1..sel_total}}}

\* C13: parse_selection returns a strictly increasing list of 0-based
\* indices within [0, N); 'all' (any case, surrounding blanks) yields
\* [0..N-1]; otherwise the list holds every index within 1..N that a
\* well-formed token names: a range reaching outside 1..N is clipped, not
\* dropped; malformed tokens contribute nothing.
C13_SelectionClipped ==
    sel_out # None =>
        /\ SelShape
        /\ ~IsAll(sel_selection) =>
              Range(sel_out[1]) =
                  {i - 1 : i \in (1..sel_total) \cap
                      UNION {Named(t) : t \in Tokens(sel_selection)}}

\* '1-3' with two proxies: the range reaches past the list and its
\* in-range part is selected.
C13_Witness ==
    /\ sel_out # None
    /\ sel_selection = <<"1", "-", "3">> /\ sel_total = 2
    /\ sel_out[1] = <<0, 1>>

\* ========================================================================
\* proxy_parser.py: parse_proxy and Proxy.get_request_proxies
\* ========================================================================
\* A line is a sequence of characters; a scheme name stands in it as one
\* piece.  The lines are written from their parts in the four forms.
IntendedProxies ==
    [form : {"url", "url_auth", "at", "colon_auth", "simple"},
     scheme : {"http", "https", "socks5", "HTTPS"},
     host : {<<"h">>, <<"1", ".", "2">>},
     port : {[text |-> <<"8", "0">>, value |-> 80],
             [text |-> <<"0", "8">>, value |-> 8]},
     username : {<<"u">>, <<"8">>},
     password : {<<"p">>, <<"1">>, <<"p", ":", "q">>},
     blanks : {0, 1}]

WriteLine(i) ==
    LET pad == IF i.blanks = 1 THEN <<" ">> ELSE <<>>
        auth == i.username \o <<":">> \o i.password
        hostport == i.host \o <<":">> \o i.port.text
    IN  pad \o
        ( CASE i.form = "url" -> <<i.scheme, ":", "/", "/">> \o hostport
            [] i.form = "url_auth" ->
                  <<i.scheme, ":", "/", "/">> \o auth \o <<"@">> \o hostport
            [] i.form = "at" -> auth \o <<"@">> \o hostport
            [] i.form = "colon_auth" -> hostport \o <<":">> \o auth
            [] i.form = "simple" -> hostport )
        \o pad

\* scheme.lower()
SchemeLower(scheme) == IF scheme = "HTTPS" THEN "https" ELSE scheme

\* The string before and after the first c of s; None if s has no c.
Cut(s, c) ==
    IF \A k \in DOMAIN s : s[k] # c THEN None
    ELSE LET k == CHOOSE x \in DOMAIN s :
                    s[x] = c /\ \A y \in 1..(x - 1) : s[y] # c
         IN  [before |-> SubSeq(s, 1, k - 1), after |-> SubSeq(s, k + 1, Len(s))]

\* ^([^:]+):(\d+)$ (line 101); also the tail of the other patterns.
simple_match(s) ==
    LET hp == Cut(s, ":")
    IN  IF hp # None /\ hp.before # <<>> /\ int(hp.after) # None
        THEN [host |-> hp.before, port |-> hp.after,
              username |-> None, password |-> None]
        ELSE None

\* ^([^:]+):([^@]+)@([^:]+):(\d+)$ (line 77)
at_match(s) ==
    LET up == Cut(s, ":")
        pr == IF up # None THEN Cut(up.after, "@") ELSE None
        hp == IF pr # None THEN simple_match(pr.after) ELSE None
    IN  IF hp # None /\ up.before # <<>> /\ pr.before # <<>>
        THEN [host |-> hp.host, port |-> hp.port,
              username |-> Some(up.before), password |-> Some(pr.before)]
        ELSE None

\* ^(https?|socks5)://(?:([^:]+):([^@]+)@)?([^:]+):(\d+)$ with
\* re.IGNORECASE (lines 57-61): the optional group is tried first.
url_match(s) ==
    IF /\ Len(s) >= 4
       /\ SchemeLower(s[1]) \in {"http", "https", "socks5"}
       /\ SubSeq(s, 2, 4) = <<":", "/", "/">>
    THEN LET rest == SubSeq(s, 5, Len(s))
             found == IF at_match(rest) # None THEN at_match(rest)
                                               ELSE simple_match(rest)
         IN  IF found # None THEN [scheme |-> s[1]] @@ found ELSE None
    ELSE None

\* ^([^:]+):(\d+):([^:]+):(.+)$ (line 89)
colon_auth_match(s) ==
    LET hp == Cut(s, ":")
        pu == IF hp # None THEN Cut(hp.after, ":") ELSE None
        up == IF pu # None THEN Cut(pu.after, ":") ELSE None
    IN  IF /\ up # None /\ hp.before # <<>> /\ int(pu.before) # None
           /\ up.before # <<>> /\ up.after # <<>>
        THEN [host |-> hp.before, port |-> pu.before,
              username |-> Some(up.before), password |-> Some(up.after)]
        ELSE None

\* lines 13-20
Proxy(host, port, username, password, proxy_type) ==
    [host |-> host, port |-> port, username |-> username,
     password |-> password, proxy_type |-> proxy_type]

\* The Proxy built from the groups of a match: port=int(port).
FromGroups_TypeForgotten(g, proxy_type) ==
    Proxy(g.host, int(g.port)[1], g.username, g.password, "http")

FromGroups(g, proxy_type) ==
    Proxy(g.host, int(g.port)[1], g.username, g.password, proxy_type)

\* lines 50-111
parse_proxy(line) ==
    LET s == strip(line)
    IN  IF s = <<>> \/ Head(s) = "#" THEN None
        ELSE IF url_match(s) # None
        THEN FromGroups(url_match(s),
                 IF SchemeLower(url_match(s).scheme) = "socks5" THEN "socks5"
                 ELSE IF SchemeLower(url_match(s).scheme) = "https" THEN "https"
                 ELSE "http")
        ELSE IF at_match(s) # None THEN FromGroups(at_match(s), "http")
        ELSE IF colon_auth_match(s) # None
        THEN FromGroups(colon_auth_match(s), "http")
        ELSE IF simple_match(s) # None THEN FromGroups(simple_match(s), "http")
        ELSE None

\* str(port) in the f-string of line 36
RECURSIVE DecimalText(_)
DecimalText(n) ==
    LET digit == CHOOSE c \in Digits : DigitValue(c) = n % 10
    IN  IF n < 10 THEN <<digit>> ELSE DecimalText(n \div 10) \o <<digit>>

\* lines 30-47; an empty or absent username or password is falsy.
get_request_proxies(proxy) ==
    LET Truthy_(x) == x # None /\ x[1] # <<>>
        auth == IF Truthy_(proxy.username) /\ Truthy_(proxy.password)
                THEN proxy.username[1] \o <<":">> \o proxy.password[1] \o <<"@">>
                ELSE <<>>
        proxy_url == <<proxy.proxy_type, ":", "/", "/">> \o auth \o proxy.host
                        \o <<":">> \o DecimalText(proxy.port)
    IN  [http |-> proxy_url, https |-> proxy_url]

PxInit ==
    /\ px_intended \in
          {i \in IntendedProxies :
              /\ i.form \notin {"url", "url_auth"} => i.scheme = "http"
              /\ i.form \in {"url", "simple"} =>
                    i.username = <<"u">> /\ i.password = <<"p">>}
    /\ px_line = WriteLine(px_intended)
    /\ px_proxy = None
    /\ px_request = None

CallParseProxy ==
    /\ UNCHANGED notPx
    /\ px_proxy = None
    /\ px_proxy' = Some(parse_proxy(px_line))
    /\ UNCHANGED <<px_intended, px_line, px_request>>

CallGetRequestProxies ==
    /\ UNCHANGED notPx
    /\ px_proxy # None /\ px_proxy[1] # None
    /\ px_request = None
    /\ px_request' = get_request_proxies(px_proxy[1])
    /\ UNCHANGED <<px_intended, px_line, px_proxy>>

NextProxy == CallParseProxy \/ CallGetRequestProxies

InitProxy == OrchIdle /\ RecIdle /\ MultiIdle /\ ProbeIdle /\ DetIdle
    /\ SelIdle /\ PxInit /\ SeqIdle /\ MainIdle /\ SlowIdle

SpecProxy == InitProxy /\ [][NextProxy]_vars

\* What the line was written to mean.
HasAuth(i) == i.form \in {"url_auth", "at", "colon_auth"}
HasScheme(i) == i.form \in {"url", "url_auth"}
IntendedType(i) ==
    IF ~HasScheme(i) THEN "http"
    ELSE IF i.scheme = "HTTPS" THEN "https" ELSE i.scheme

\* C14: for a well-formed proxy string in each of the four forms (host and
\* username free of ':' and '@', password free of '@', port a decimal
\* number) parse_proxy returns a Proxy with exactly the intended host, port,
\* username, password and type (HTTP when no scheme is given), and
\* get_request_proxies builds, for both the 'http' and the 'https' key, the
\* URL scheme://[user:pass@]host:port of those same parts.
C14_ParseBuildRoundTrip ==
    /\ px_proxy # None =>
          /\ px_proxy[1] # None
          /\ px_proxy[1].host = px_intended.host
          /\ px_proxy[1].port = px_intended.port.value
          /\ px_proxy[1].username =
                IF HasAuth(px_intended) THEN Some(px_intended.username) ELSE None
          /\ px_proxy[1].password =
                IF HasAuth(px_intended) THEN Some(px_intended.password) ELSE None
          /\ px_proxy[1].proxy_type = IntendedType(px_intended)
    /\ px_request # None =>
          /\ px_request.http = px_request.https
          /\ px_request.http =
                <<IntendedType(px_intended), ":", "/", "/">>
                \o (IF HasAuth(px_intended)
                    THEN px_intended.username \o <<":">> \o px_intended.password
                            \o <<"@">>
                    ELSE <<>>)
                \o px_intended.host \o <<":">>
                \o (IF px_intended.port.value = 80 THEN <<"8", "0">> ELSE <<"8">>)

\* An upper-case scheme, a password holding ':' and a port written with a
\* leading zero, parsed and turned into the request mapping.
C14_Witness ==
    /\ px_request # None
    /\ px_intended.form = "url_auth" /\ px_intended.scheme = "HTTPS"
    /\ px_intended.password = <<"p", ":", "q">>
    /\ px_intended.port.value = 8
    /\ px_proxy[1].proxy_type = "https"
    /\ px_request.https =
          <<"https", ":", "/", "/", "u", ":", "p", ":", "q", "@", "h", ":", "8">>

\* ========================================================================
\* tester.py: the test sequence of one proxy (test_proxy_full,
\* test_proxy_multi_url) with test_ping and check_proxy_ip
\* ========================================================================
\* A network operation is a pair: <<"http", url>>, <<"ping", host>> or
\* <<"ip", endpoint>>.  Each is started by one step and finished by another.
HttpOutcomes ==
    {[success |-> TRUE, http_status |-> Some(200), http_error |-> None,
      latency_ms |-> Some(120),
      block_result |-> Some([is_blocked |-> FALSE, confidence |-> 0])],
     [success |-> FALSE, http_status |-> None,
      http_error |-> Some("Connection failed"), latency_ms |-> None,
      block_result |-> None]}

\* test_ping returns (ping_ms, ping_error); it does not raise.
PingOutcomes ==
    {[ping_ms |-> Some(12), ping_error |-> None],
     [ping_ms |-> None, ping_error |-> Some("Host unreachable")],
     [ping_ms |-> None, ping_error |-> Some("Ping timeout")]}

ip_check_urls ==
    <<"https://api.ipify.org", "https://icanhazip.com", "https://ipinfo.io/ip">>

\* What requests.get does for one endpoint: it raises, or returns a
\* response with a status code and a text (a sequence of characters; the
\* long ones are 49 and 50 times "x").
IpReplies ==
    {[kind |-> "ConnectionError", status_code |-> 0, text |-> <<>>],
     [kind |-> "Timeout", status_code |-> 0, text |-> <<>>]}
    \cup [kind : {"response"}, status_code : {200},
          text : {<<>>, <<" ">>, <<" ", "1", ".", "2", " ">>,
                  [k \in 1..49 |-> "x"], <<" ">> \o [k \in 1..49 |-> "x"],
                  [k \in 1..50 |-> "x"]}]
    \cup {[kind |-> "response", status_code |-> 500,
           text |-> <<" ", "1", ".", "2", " ">>]}

\* lines 215-218: the ip the reply makes check_proxy_ip return, None if the
\* loop goes on to the next endpoint (the bare except of line 219 included).
AcceptedIp_FiftyAllowed(reply) ==
    IF /\ reply.kind = "response" /\ reply.status_code = 200
       /\ strip(reply.text) # <<>> /\ Len(strip(reply.text)) <= 50
    THEN Some(strip(reply.text))
    ELSE None

AcceptedIp(reply) ==
    IF /\ reply.kind = "response" /\ reply.status_code = 200
       /\ strip(reply.text) # <<>> /\ Len(strip(reply.text)) < 50
    THEN Some(strip(reply.text))
    ELSE None

\* result.success (line 249); any(r.success for r in
\* result.url_results.values()) (line 374)
HttpSucceeded(result) ==
    IF t_mode = "single" THEN result.success
    ELSE \E u \in DOMAIN result.url_results : result.url_results[u].success

\* lines 249, 374: whether check_proxy_ip is called.
IpCheckDue_WhateverHttp(result) == t_include_ip_check

IpCheckDue(result) == t_include_ip_check /\ HttpSucceeded(result)

\* Where the worker goes once the HTTP probes are done (lines 244, 371) and
\* once the ping is done (lines 249, 374).
AfterPing(result) == IF IpCheckDue(result) THEN "ip" ELSE "return"
AfterHttp(result) == IF t_include_ping THEN "ping" ELSE AfterPing(result)

SeqInit ==
    /\ t_mode \in {"single", "multi"}
    /\ t_urls \in UrlLists
    /\ t_mode = "single" => Len(t_urls) = 1
    /\ t_include_ping \in BOOLEAN
    /\ t_include_ip_check \in BOOLEAN
    /\ t_pc = "http"
    /\ t_k = 1
    /\ t_inflight = {}
    /\ t_started = <<>>
    \* line 364: result = MultiURLTestResult(proxy=proxy)
    /\ t_result = IF t_mode = "multi"
                  THEN [url_results |-> <<>>, ping_ms |-> None,
                        ping_error |-> None, detected_ip |-> None]
                  ELSE None
    /\ t_replies = <<>>

\* test_http (line 242) or test_http_for_url (line 368) sends its request.
StartHttp ==
    /\ UNCHANGED notSeq
    /\ t_pc = "http"
    /\ t_inflight = {}
    /\ t_inflight' = t_inflight \cup {<<"http", t_urls[t_k]>>}
    /\ t_started' = Append(t_started, <<"http", t_urls[t_k]>>)
    /\ UNCHANGED <<t_mode, t_urls, t_include_ping, t_include_ip_check, t_pc,
                   t_k, t_result, t_replies>>

\* The probe returns its record; lines 242 and 368-369.
EndHttp ==
    /\ UNCHANGED notSeq
    /\ t_pc = "http"
    /\ t_inflight = {<<"http", t_urls[t_k]>>}
    /\ \E outcome \in HttpOutcomes :
          LET result ==
                IF t_mode = "single"
                THEN outcome @@ [ping_ms |-> None, ping_error |-> None,
                                 detected_ip |-> None]
                ELSE [t_result EXCEPT !.url_results =
                        [u \in DOMAIN t_result.url_results \cup {t_urls[t_k]} |->
                            IF u = t_urls[t_k] THEN outcome
                                               ELSE t_result.url_results[u]]]
          IN  /\ t_result' = result
              /\ t_pc' = IF t_k < Len(t_urls) THEN "http" ELSE AfterHttp(result)
    /\ t_k' = t_k + 1
    /\ t_inflight' = {}
    /\ UNCHANGED <<t_mode, t_urls, t_include_ping, t_include_ip_check,
                   t_started, t_replies>>

\* test_ping runs the ping command (line 166).
StartPing ==
    /\ UNCHANGED notSeq
    /\ t_pc = "ping"
    /\ t_inflight = {}
    /\ t_inflight' = t_inflight \cup {<<"ping", "host">>}
    /\ t_started' = Append(t_started, <<"ping", "host">>)
    /\ UNCHANGED <<t_mode, t_urls, t_include_ping, t_include_ip_check, t_pc,
                   t_k, t_result, t_replies>>

\* lines 246-247, 372: what test_ping returned is stored in the record.
StorePing_AsLatency(result, outcome) ==
    IF t_mode = "single"
    THEN [result EXCEPT !.ping_ms = outcome.ping_ms,
                        !.ping_error = outcome.ping_error,
                        !.latency_ms = outcome.ping_ms]
    ELSE [result EXCEPT !.ping_ms = outcome.ping_ms,
                        !.ping_error = outcome.ping_error,
                        !.url_results =
                            [u \in DOMAIN @ |->
                                [@[u] EXCEPT !.latency_ms = outcome.ping_ms]]]

StorePing(result, outcome) ==
    [result EXCEPT !.ping_ms = outcome.ping_ms,
                   !.ping_error = outcome.ping_error]

\* lines 245-247, 372
EndPing ==
    /\ UNCHANGED notSeq
    /\ t_pc = "ping"
    /\ t_inflight = {<<"ping", "host">>}
    /\ \E outcome \in PingOutcomes :
          t_result' = StorePing(t_result, outcome)
    /\ t_pc' = AfterPing(t_result)
    /\ t_inflight' = {}
    /\ UNCHANGED <<t_mode, t_urls, t_include_ping, t_include_ip_check, t_k,
                   t_started, t_replies>>

\* check_proxy_ip, lines 207-214: the request to the next endpoint.
StartEndpoint ==
    /\ UNCHANGED notSeq
    /\ t_pc = "ip"
    /\ t_inflight = {}
    /\ t_inflight' = t_inflight \cup {<<"ip", ip_check_urls[Len(t_replies) + 1]>>}
    /\ t_started' = Append(t_started, <<"ip", ip_check_urls[Len(t_replies) + 1]>>)
    /\ UNCHANGED <<t_mode, t_urls, t_include_ping, t_include_ip_check, t_pc,
                   t_k, t_result, t_replies>>

\* lines 215-222 and 250, 375: the endpoint answers or the request raises;
\* check_proxy_ip returns the ip, goes on to the next endpoint, or returns
\* None after the last one.
EndEndpoint ==
    /\ UNCHANGED notSeq
    /\ t_pc = "ip"
    /\ t_inflight = {<<"ip", ip_check_urls[Len(t_replies) + 1]>>}
    /\ \E reply \in IpReplies :
          /\ t_replies' = Append(t_replies, reply)
          /\ IF AcceptedIp(reply) # None
             THEN /\ t_result' = [t_result EXCEPT !.detected_ip = AcceptedIp(reply)]
                  /\ t_pc' = "return"
             ELSE IF Len(t_replies) + 1 < Len(ip_check_urls)
             THEN UNCHANGED t_result /\ t_pc' = "ip"
             ELSE /\ t_result' = [t_result EXCEPT !.detected_ip = None]
                  /\ t_pc' = "return"
    /\ t_inflight' = {}
    /\ UNCHANGED <<t_mode, t_urls, t_include_ping, t_include_ip_check, t_k,
                   t_started>>

\* lines 252, 377
ReturnSequence ==
    /\ UNCHANGED notSeq
    /\ t_pc = "return"
    /\ t_pc' = "returned"
    /\ UNCHANGED <<t_mode, t_urls, t_include_ping, t_include_ip_check, t_k,
                   t_inflight, t_started, t_result, t_replies>>

NextSequence ==
    \/ StartHttp \/ EndHttp
    \/ StartPing \/ EndPing
    \/ StartEndpoint \/ EndEndpoint
    \/ ReturnSequence

InitSequence == OrchIdle /\ RecIdle /\ MultiIdle /\ ProbeIdle /\ DetIdle
    /\ SelIdle /\ PxIdle /\ SeqInit /\ MainIdle /\ SlowIdle

SpecSequence == InitSequence /\ [][NextSequence]_vars

\* The operations of one kind started so far.
StartedOf(kind) == SelectSeq(t_started, LAMBDA op : op[1] = kind)

\* Some HTTP probe of the sequence has returned success.
SomeProbeSucceeded ==
    /\ t_result # None
    /\ IF t_mode = "single" THEN t_result.success
       ELSE \E u \in DOMAIN t_result.url_results :
               t_result.url_results[u].success

\* C15: an IP-echo endpoint is contacted only if the IP-check toggle is on
\* and the HTTP probe (single-URL mode) or one of the URL probes (multi-URL
\* mode) succeeded; otherwise the sequence returns with detected_ip absent
\* and no endpoint contacted.  The ping runs exactly when its toggle is on,
\* whether or not the HTTP probe succeeded.
C15_IpCheckGated ==
    /\ StartedOf("ip") # <<>> => (t_include_ip_check /\ SomeProbeSucceeded)
    /\ (t_pc = "returned" /\ ~(t_include_ip_check /\ SomeProbeSucceeded)) =>
          (t_result.detected_ip = None /\ StartedOf("ip") = <<>>)
    /\ t_pc = "returned" =>
          StartedOf("ping") = IF t_include_ping THEN <<<<"ping", "host">>>>
                                                ELSE <<>>

\* Both toggles on and every HTTP probe failed: the ping has run and no
\* endpoint was contacted.
C15_Witness ==
    /\ t_pc = "returned"
    /\ t_include_ping /\ t_include_ip_check
    /\ ~SomeProbeSucceeded
    /\ t_result.ping_ms # None
    /\ StartedOf("ping") # <<>> /\ StartedOf("ip") = <<>>
    /\ t_result.detected_ip = None

\* ========================================================================
\* main.py: main
\* ========================================================================
\* What a prompt does: it returns the answer, or console.input raises
\* EOFError (end of input) or KeyboardInterrupt.
PromptFaults == {"EOFError", "KeyboardInterrupt"}

\* The process ends with the given status.
Exit(status, cause) ==
    /\ mn_pc' = "exited"
    /\ mn_exit' = Some(status)
    /\ mn_cause' = cause

\* lines 165-170: the handlers of main's outer try.
Handler_AlwaysZero(exc) == Exit(0, exc)

Handler(exc) ==
    IF exc = "KeyboardInterrupt" THEN Exit(0, exc) ELSE Exit(1, exc)

MainInit ==
    /\ mn_pc = "file" /\ mn_proxies = None /\ mn_selected = <<>>
    /\ mn_urls = <<>> /\ mn_invalid = FALSE /\ mn_started = FALSE
    /\ mn_exit = None /\ mn_cause = "none"

\* lines 79-99: the file prompt, parse_proxy_file and the two rejections.
\* Opening and reading the file raises FileNotFoundError or another
\* exception, re-raised as Exception (proxy_parser.py, lines 117-126), or
\* parse_proxy_file returns the list of the proxies parsed, here its length.
ReadProxies ==
    /\ UNCHANGED notMain
    /\ mn_pc = "file"
    /\ \/ \E exc \in PromptFaults : Handler(exc) /\ UNCHANGED mn_proxies
       \/ \E exc \in {"FileNotFoundError", "Exception"} :
            /\ IF exc = "FileNotFoundError" THEN Exit(1, exc) ELSE Handler(exc)
            /\ UNCHANGED mn_proxies
       \/ \E n \in 0..MaxProxies :
            /\ mn_proxies' = Some(n)
            /\ IF n = 0
               THEN Exit(1, "No valid proxies")
               ELSE mn_pc' = "select" /\ UNCHANGED <<mn_exit, mn_cause>>
    /\ UNCHANGED <<mn_selected, mn_urls, mn_invalid, mn_started>>

\* get_proxy_selection, lines 67-74 (one turn of the loop), and line 101.
AskSelection ==
    /\ UNCHANGED notMain
    /\ mn_pc = "select"
    /\ \/ \E exc \in PromptFaults :
            Handler(exc) /\ UNCHANGED <<mn_selected, mn_invalid>>
       \/ \E selection \in
                {<<"a", "l", "l">>, <<"1">>, <<"9">>, <<"1", "-">>, <<>>} :
            \* prompt("Selection", "all"): an empty answer gives the default
            LET answer == IF selection = <<>> THEN <<"a", "l", "l">>
                                              ELSE selection
                indices == parse_selection(answer, mn_proxies[1])
            IN  IF indices # <<>>
                THEN /\ mn_selected' = indices
                     /\ mn_pc' = "urls"
                     /\ UNCHANGED <<mn_invalid, mn_exit, mn_cause>>
                ELSE /\ mn_invalid' = TRUE
                     /\ UNCHANGED <<mn_pc, mn_selected, mn_exit, mn_cause>>
    /\ UNCHANGED <<mn_proxies, mn_urls, mn_started>>

\* get_target_urls, lines 46-60, and line 106.
AskUrls ==
    /\ UNCHANGED notMain
    /\ mn_pc = "urls"
    /\ \/ \E exc \in PromptFaults : Handler(exc) /\ UNCHANGED mn_urls
       \/ \E list \in UrlLists :
            /\ mn_urls' = list
            /\ mn_pc' = "test"
            /\ UNCHANGED <<mn_exit, mn_cause>>
    /\ UNCHANGED <<mn_proxies, mn_selected, mn_invalid, mn_started>>

\* lines 109-163: the orchestrator is called and the results are printed;
\* an exception raised on the way reaches the handlers.
RunTests ==
    /\ UNCHANGED notMain
    /\ mn_pc = "test"
    /\ mn_started' = TRUE
    /\ \/ \E exc \in {"KeyboardInterrupt", "Exception"} : Handler(exc)
       \/ Exit(0, "finished")
    /\ UNCHANGED <<mn_proxies, mn_selected, mn_urls, mn_invalid>>

NextMain == ReadProxies \/ AskSelection \/ AskUrls \/ RunTests

InitMain == OrchIdle /\ RecIdle /\ MultiIdle /\ ProbeIdle /\ DetIdle
    /\ SelIdle /\ PxIdle /\ SeqIdle /\ MainInit /\ SlowIdle

SpecMain == InitMain /\ [][NextMain]_vars

\* C16 as stated: a run ends with a non-zero exit status exactly when the
\* proxy file was missing, no valid proxy was parsed or a selection was
\* invalid, and then before the orchestrator is called.
C16_NonZeroIffInputError ==
    mn_pc = "exited" =>
        /\ mn_exit # Some(0) <=>
              \/ mn_cause \in {"FileNotFoundError", "No valid proxies"}
              \/ mn_invalid
        /\ mn_exit # Some(0) => ~mn_started

\* C16: a run ends with a non-zero exit status exactly when the proxy file
\* was missing, no valid proxy was parsed, or an exception other than
\* KeyboardInterrupt reached main's handler; the first two reject the run
\* before the orchestrator is called.  A refused selection does not end the
\* run: the selection is asked for again.
C16_NonZeroIffRejectedOrUnexpected ==
    /\ mn_pc = "exited" =>
          /\ mn_exit # Some(0) <=>
                mn_cause \in {"FileNotFoundError", "No valid proxies",
                              "Exception", "EOFError"}
          /\ mn_cause \in {"FileNotFoundError", "No valid proxies"} =>
                ~mn_started /\ mn_selected = <<>>
    /\ (mn_invalid /\ mn_selected = <<>> /\ mn_exit = None) => mn_pc = "select"
    /\ mn_started => mn_selected # <<>>

\* A selection was refused, the next one accepted, and the run ended with
\* status 0 after the tests.
C16_Witness ==
    /\ mn_pc = "exited" /\ mn_invalid /\ mn_started
    /\ mn_cause = "finished" /\ mn_exit = Some(0)

\* The high-confidence step of the call, and what lies in title and body.
HighOfCall ==
    HighStep(title_text(lower(d_text)), lower(d_text), d_length)

HighInTitle ==
    \E k \in DOMAIN HIGH_CONFIDENCE_KEYWORDS :
        In(HIGH_CONFIDENCE_KEYWORDS[k], title_text(lower(d_text)))

HighInBody ==
    \E k \in DOMAIN HIGH_CONFIDENCE_KEYWORDS :
        In(HIGH_CONFIDENCE_KEYWORDS[k], lower(d_text))

\* C17: in the high-confidence step, whenever a high-confidence phrase
\* occurs in the title the step adds exactly 0.5 with a 'Block indicator in
\* title' reason, whichever phrases occur in the body and whatever the
\* content length; it adds 0.3 with a 'Block indicator' reason only when no
\* phrase is in the title, some phrase is in the body and the content length
\* is below 5000; it adds at most once, and its reason is in the result.
C17_TitleBeforeBody ==
    d_out # None =>
        /\ HighInTitle =>
              /\ HighOfCall.add = 50
              /\ HighOfCall.reasons[1][1] = "Block indicator in title"
        /\ HighOfCall.add = 30 =>
              /\ ~HighInTitle /\ HighInBody /\ d_length < 5000
              /\ HighOfCall.reasons[1][1] = "Block indicator"
        /\ HighOfCall.add \in {0, 30, 50}
        /\ Len(HighOfCall.reasons) = (IF HighOfCall.add = 0 THEN 0 ELSE 1)
        /\ \A k \in DOMAIN HighOfCall.reasons :
              \E j \in DOMAIN d_out.reason[1] :
                  d_out.reason[1][j] = HighOfCall.reasons[k]

\* A signal fired: one of the steps of the call added to the confidence.
SignalFired ==
    \E k \in 1..6 : Steps(d_text, d_status, d_length)[k].add > 0

\* C18: the result of detect_block has 0 <= confidence <= 1, is_blocked is
\* true exactly when confidence >= 0.5, and reason is absent exactly when no
\* signal fired, which is exactly when confidence = 0.
C18_ResultConsistent ==
    d_out # None =>
        /\ 0 <= d_out.confidence /\ d_out.confidence <= 100
        /\ d_out.is_blocked <=> d_out.confidence >= 50
        /\ d_out.reason = None <=> ~SignalFired
        /\ ~SignalFired <=> d_out.confidence = 0

\* Every step fires on a short 403 page and the sum is clamped to 1; the
\* reason lists all six signals.
C18_Witness ==
    /\ d_out # None
    /\ d_out.confidence = 100 /\ d_out.is_blocked
    /\ Undamped > 100
    /\ d_out.reason # None /\ Len(d_out.reason[1]) = 6

\* The text without the blanks around it.
Trimmed(text) ==
    LET inked == {k \in DOMAIN text : text[k] # " "}
    IN  IF inked = {} THEN <<>>
        ELSE SubSeq(text, CHOOSE a \in inked : \A k \in inked : a <= k,
                          CHOOSE b \in inked : \A k \in inked : k <= b)

\* An endpoint failed: exception, timeout, a status other than 200, or a
\* text that is empty or has 50 or more characters once trimmed.
Failed(reply) ==
    \/ reply.kind # "response"
    \/ reply.status_code # 200
    \/ Trimmed(reply.text) = <<>>
    \/ Len(Trimmed(reply.text)) >= 50

\* C19: check_proxy_ip contacts the endpoints one at a time in the order
\* ipify, icanhazip, ipinfo: endpoint k is contacted only after every
\* earlier one has answered and failed, none is contacted after one has
\* succeeded, the value returned is the trimmed text of the first endpoint
\* that succeeded, and it is absent exactly when all three failed; the
\* probe does not raise.
C19_EndpointsInTurn ==
    LET contacted == StartedOf("ip")
    IN  /\ Len(contacted) <= 3
        /\ \A k \in DOMAIN contacted : contacted[k] = <<"ip", ip_check_urls[k]>>
        /\ Cardinality(t_inflight) <= 1
        /\ Len(t_replies) =
              IF \E op \in t_inflight : op[1] = "ip" THEN Len(contacted) - 1
                                                     ELSE Len(contacted)
        /\ \A k \in DOMAIN contacted :
              \A j \in 1..(k - 1) : j <= Len(t_replies) /\ Failed(t_replies[j])
        /\ \A j \in DOMAIN t_replies :
              ~Failed(t_replies[j]) => j = Len(contacted)
        /\ t_pc \in {"http", "ping", "ip", "return", "returned"}
        /\ (t_pc \in {"return", "returned"} /\ contacted # <<>>) =>
              /\ t_result.detected_ip = None <=>
                    (Len(t_replies) = 3 /\ \A j \in 1..3 : Failed(t_replies[j]))
              /\ t_result.detected_ip # None =>
                    t_result.detected_ip =
                        Some(Trimmed(t_replies[Len(t_replies)].text))

\* ipify timed out, icanhazip sent 50 characters, ipinfo sent the address
\* with blanks around it: all three were contacted and the address returned.
C19_Witness ==
    /\ t_pc = "returned"
    /\ Len(StartedOf("ip")) = 3
    /\ t_replies[1].kind = "Timeout"
    /\ t_replies[2].kind = "response" /\ Len(t_replies[2].text) = 50
    /\ t_replies[3].text = <<" ", "1", ".", "2", " ">>
    /\ t_result.detected_ip = Some(<<"1", ".", "2">>)

\* ========================================================================
\* The orchestrator under fair scheduling, with one slow task
\* ========================================================================
\* The calling thread and the worker threads are scheduled fairly, and
\* every task but the slow one ends; the slow one may run forever.
InitSlow == OrchInit /\ RecIdle /\ MultiIdle /\ ProbeIdle /\ DetIdle
    /\ SelIdle /\ PxIdle /\ SeqIdle /\ MainIdle
    /\ urls = (IF mode = "single" THEN <<"u1">> ELSE <<"u1", "u2">>)
    /\ has_callback = TRUE /\ slow \in Indices

Fairness ==
    /\ WF_vars(FetchReference) /\ WF_vars(Submit) /\ WF_vars(BeginCollect)
    /\ WF_vars(Return) /\ WF_vars(Propagate) /\ WF_vars(StartTask)
    /\ \A i \in 1..MaxProxies : WF_vars(i \in Indices /\ Collect(i))
    /\ \A i \in 1..MaxProxies :
          WF_vars(i \in Indices /\ i # slow /\ FinishTask(i))

SpecSlow == InitSlow /\ [][Next]_vars /\ Fairness

\* The record of proxy i is stored at its index and was passed to the
\* progress callback.
Reported(i) ==
    /\ i \in collected
    /\ results[i] = ResultOf(i)
    /\ \E k \in DOMAIN calls : calls[k].index = i /\ calls[k].result = results[i]

\* C20: with a worker cap of at least 2 and fair scheduling, the task of
\* every proxy other than the slow one is eventually started, finished,
\* stored at its index and reported through the progress callback, even if
\* the slow task never ends; the slow task, once running, is never
\* cancelled; once it has finished its record is stored and reported too,
\* and after that the call returns.
C20_SlowTaskDelaysOnlyItself ==
    /\ \A j \in 1..MaxProxies :
          (max_workers >= 2 /\ j \in Indices /\ j # slow)
              ~> (/\ j \in Indices
                  /\ start_count[j] = 1 /\ task[j] = "finished"
                  /\ Reported(j))
    /\ [][task[slow] = "running" => task'[slow] \in {"running", "finished"}]_vars
    /\ (task[slow] = "finished") ~> Reported(slow)
    /\ (task[slow] = "finished") ~> (pc = "returned")
    /\ [](pc = "returned" => \A i \in Indices : Reported(i))

\* The same for the runs in which the progress callback does not raise:
\* either the callback has raised, or every promise above is kept.
DelaysOnlyItselfUnlessCallbackRaises ==
    /\ \A j \in 1..MaxProxies :
          (max_workers >= 2 /\ j \in Indices /\ j # slow)
              ~> (cb_raised \/ (/\ j \in Indices
                                /\ start_count[j] = 1 /\ task[j] = "finished"
                                /\ Reported(j)))
    /\ [][task[slow] = "running" => task'[slow] \in {"running", "finished"}]_vars
    /\ (task[slow] = "finished") ~> (cb_raised \/ Reported(slow))
    /\ (task[slow] = "finished") ~> (cb_raised \/ pc = "returned")
    /\ [](pc = "returned" => \A i \in Indices : Reported(i))

\* Two workers, the slow task still running, and every other proxy's
\* record already stored and reported.
SlowRunningOthersReported ==
    /\ pc = "collect" /\ slow \in Indices /\ N >= 2 /\ max_workers >= 2
    /\ task[slow] = "running"
    /\ \A j \in Indices \ {slow} : Reported(j)
    /\ ~cb_raised

\* The callback raised on the record of another proxy while the slow task
\* was still running: the call waits for the slow task and then raises.
CallbackRaisedWhileSlowRuns ==
    /\ cb_raised /\ slow \in Indices /\ max_workers >= 2
    /\ task[slow] = "running" /\ pc = "shutdown"
    /\ \E j \in Indices \ {slow} : task[j] = "finished"

\* The HTTP outcome fields of the record: success, status, error, latency
\* and block result, of the one probe or of every URL probed.
HttpFields(result) ==
    IF result = None THEN None
    ELSE IF t_mode = "single"
    THEN [success |-> result.success, http_status |-> result.http_status,
          http_error |-> result.http_error, latency_ms |-> result.latency_ms,
          block_result |-> result.block_result]
    ELSE result.url_results

\* The place of an operation in the sequence: HTTP probe, ping, IP check.
KindRank(op) == CASE op[1] = "http" -> 1 [] op[1] = "ping" -> 2 [] op[1] = "ip" -> 3

\* C21: within the test sequence of one proxy at most one network operation
\* is in flight at any time, and an operation is started only when none is
\* in flight; the HTTP probes are started one after another in the order of
\* the URL list (one probe in single-URL mode), all of them have finished
\* before the ping starts, and the ping has finished before the first
\* IP-echo endpoint is contacted; the ping step and the IP-check step leave
\* the HTTP outcome fields of the record (success, status, error, latency,
\* block result) as the probes wrote them.
C21_StrictlySequential ==
    /\ [](/\ Cardinality(t_inflight) <= 1
          /\ \A op \in t_inflight :
                t_started # <<>> /\ op = t_started[Len(t_started)]
          /\ \A i, j \in DOMAIN t_started :
                i < j => KindRank(t_started[i]) <= KindRank(t_started[j])
          /\ Len(StartedOf("http")) <= Len(t_urls)
          /\ \A k \in DOMAIN StartedOf("http") :
                StartedOf("http")[k] = <<"http", t_urls[k]>>
          /\ Len(StartedOf("ping")) <= 1
          /\ (StartedOf("ping") # <<>> \/ StartedOf("ip") # <<>>) =>
                /\ Len(StartedOf("http")) = Len(t_urls)
                /\ t_k = Len(t_urls) + 1
                /\ \A op \in t_inflight : op[1] # "http"
          /\ StartedOf("ip") # <<>> =>
                /\ \A op \in t_inflight : op[1] # "ping"
                /\ t_include_ping => t_result.ping_ms # None
                                        \/ t_result.ping_error # None)
    /\ [][/\ t_started' # t_started =>
                /\ t_inflight = {}
                /\ Len(t_started') = Len(t_started) + 1
          /\ t_pc \in {"ping", "ip", "return"} =>
                HttpFields(t_result') = HttpFields(t_result)]_vars

\* A multi-URL sequence over the list u2, u1 has returned: the probe of u2
\* failed, the probe of u1 succeeded, the ping ran and the second IP-echo
\* endpoint gave the address, five operations in all.
C21_Witness ==
    /\ t_pc = "returned" /\ t_mode = "multi" /\ t_urls = <<"u2", "u1">>
    /\ t_started = <<<<"http", "u2">>, <<"http", "u1">>, <<"ping", "host">>,
                     <<"ip", ip_check_urls[1]>>, <<"ip", ip_check_urls[2]>>>>
    /\ t_inflight = {}
    /\ ~t_result.url_results["u2"].success
    /\ t_result.url_results["u1"].success
    /\ t_result.url_results["u1"].latency_ms = Some(120)
    /\ t_result.ping_ms = Some(12)
    /\ t_result.detected_ip # None

====
